---- MODULE Spec2Model ----
(***************************************************************************)
(* A model of agentSecOps_Guardian: the Mistral client                     *)
(* (agentsecops/mistral_client.py), the prompt registry                    *)
(* (agentsecops/promptregistry), the report renderer                       *)
(* (agentsecops/reporting) and the orchestrator (agentsecops/main.py).     *)
(*                                                                         *)
(* Python values are modelled as follows.  A dict is a function whose      *)
(* DOMAIN is its key set.  A JSON value is a record [t, n, s, d]: t names  *)
(* its Python type, n its number (a float in hundredths, a bool as 0/1, a  *)
(* list's length), s its text and d its mapping.  A report is the sequence *)
(* of the strings appended to `content`, each a triple <<kind, n, s>>.     *)
(***************************************************************************)
EXTENDS Integers, Sequences, FiniteSets, TLC

VARIABLES
    pc,        \* position of the running operation
    args,      \* the arguments of the operation under way
    env,       \* the MISTRAL_API_KEY environment variable
    guidance,  \* the text get_security_advisor_guidance() returns
    client,    \* MistralClient.api_key of the constructed client
    requests,  \* the requests.post calls issued so far, in order
    result,    \* what the operation returned or raised
    files,     \* the file system: path -> content
    locals     \* the local variables of main

vars == <<pc, args, env, guidance, client, requests, result, files, locals>>

----------------------------------------------------------------------------
(* Python values *)

None == "<None>"

EmptyDict == [k \in {} |-> TRUE]

Get(d, k, default) == IF k \in DOMAIN d THEN d[k] ELSE default

JNull == [t |-> "null", n |-> 0, s |-> "", d |-> EmptyDict]
JBool(b) == [t |-> "bool", n |-> IF b THEN 1 ELSE 0, s |-> "", d |-> EmptyDict]
JNum(x) == [t |-> "num", n |-> x, s |-> "", d |-> EmptyDict]
JStr(x) == [t |-> "str", n |-> 0, s |-> x, d |-> EmptyDict]
JList(len) == [t |-> "list", n |-> len, s |-> "", d |-> EmptyDict]
JDict(f) == [t |-> "dict", n |-> 0, s |-> "", d |-> f]

\* bool(v)
Truthy(v) ==
    CASE v.t = "null" -> FALSE
      [] v.t = "bool" -> v.n = 1
      [] v.t = "num" -> v.n /= 0
      [] v.t = "str" -> v.s /= ""
      [] v.t = "list" -> v.n /= 0
      [] v.t = "dict" -> DOMAIN v.d /= {}

\* `key in v`: a dict's keys, a substring of a str, an element of a list (the
\* modelled lists hold no key names); a TypeError for None, bool and numbers
In(key, v) ==
    \/ v.t = "dict" /\ key \in DOMAIN v.d
    \/ v.t = "str" /\ v.s = key

InRaises(v) == v.t \in {"null", "bool", "num"}

\* an exception, as the value an operation ends with
Raised(exc) == [t |-> "raised", n |-> 0, s |-> exc, d |-> EmptyDict]

IsRaised(v) == v.t = "raised"

----------------------------------------------------------------------------
(* promptregistry: the five templates and get_prompt *)

PROMPT_INJECTION_DETECTION == JStr("PROMPT_INJECTION_DETECTION")
HALLUCINATION_RISK_DETECTION == JStr("HALLUCINATION_RISK_DETECTION")
SECURITY_ANALYSIS == JStr("SECURITY_ANALYSIS")
SECURE_CODING_RECOMMENDATIONS == JStr("SECURE_CODING_RECOMMENDATIONS")
COMPLIANCE_ANALYSIS == JStr("COMPLIANCE_ANALYSIS")

\* the named placeholders of each template ({{ and }} are literal braces)
Placeholders(template) ==
    IF template \in {SECURITY_ANALYSIS, SECURE_CODING_RECOMMENDATIONS}
    THEN {"text", "security_findings"}
    ELSE {"text"}

prompts ==
    [prompt_injection |-> PROMPT_INJECTION_DETECTION,
     hallucination |-> HALLUCINATION_RISK_DETECTION,
     security_analysis |-> SECURITY_ANALYSIS,
     secure_coding |-> SECURE_CODING_RECOMMENDATIONS,
     compliance |-> COMPLIANCE_ANALYSIS]

\* get_prompt falling back to a default template for an unknown key
get_prompt_default(prompt_type) ==
    IF prompt_type \notin DOMAIN prompts
    THEN SECURITY_ANALYSIS
    ELSE prompts[prompt_type]

get_prompt(prompt_type) ==
    IF prompt_type \notin DOMAIN prompts
    THEN Raised("ValueError")
    ELSE prompts[prompt_type]

\* get_security_advisor_guidance(): a fixed text, empty when none is available
get_security_advisor_guidance == guidance

----------------------------------------------------------------------------
(* mistral_client: MistralClient *)

base_url == "https://api.mistral.ai/v1/chat/completions"

\* bool(key) of an optional string: None and "" are falsy
Given(key) == key /= None /\ key /= ""

\* `a or b` on optional strings
Or(a, b) == IF Given(a) THEN a ELSE b

\* __init__ without its check of the resolved key
MistralClient_unchecked(api_key) ==
    LET key == Or(api_key, env)
    IN  IF key = None THEN JStr("") ELSE JStr(key)

\* MistralClient.__init__: self.api_key, or the ValueError it raises
MistralClient(api_key) ==
    LET key == Or(api_key, env)
    IN  IF key = None \/ key = "" THEN Raised("ValueError") ELSE JStr(key)

\* system_prompt.format(**prompt_vars): a KeyError for a placeholder with no value
Format(system_prompt, prompt_vars) ==
    IF ~(Placeholders(system_prompt) \subseteq DOMAIN prompt_vars)
    THEN Raised("KeyError")
    ELSE JDict([template |-> system_prompt,
                text |-> prompt_vars["text"],
                security_findings |->
                    IF "security_findings" \in Placeholders(system_prompt)
                    THEN prompt_vars["security_findings"] ELSE JNull,
                guidance |-> JStr("")])

\* the guidance test without its restriction to three analysis types
GuidedTypes_every_type ==
    {"prompt_injection", "hallucination", "security_analysis", "secure_coding",
     "compliance"}

GuidedTypes == {"prompt_injection", "security_analysis", "secure_coding"}

\* analyze_with_mistral up to its try block: the formatted prompt, or the
\* exception raised before any request is made
FormattedPrompt(text, analysis_type, security_findings) ==
    LET system_prompt == get_prompt(analysis_type)
        prompt_vars ==
            IF Truthy(security_findings)
            THEN [text |-> text, security_findings |-> security_findings]
            ELSE [text |-> text]
        formatted_prompt ==
            IF IsRaised(system_prompt) THEN system_prompt
            ELSE Format(system_prompt, prompt_vars)
        advisor_guidance == get_security_advisor_guidance
    IN  IF IsRaised(formatted_prompt) THEN formatted_prompt
        ELSE IF advisor_guidance /= "" /\ analysis_type \in GuidedTypes
        THEN JDict([formatted_prompt.d EXCEPT !.guidance = JStr(advisor_guidance)])
        ELSE formatted_prompt

\* the requests.post call of analyze_with_mistral
Post(api_key, formatted_prompt) ==
    [url |-> base_url, token |-> api_key, prompt |-> formatted_prompt, timeout |-> 30]

\* json.loads raising a plain ValueError that the inner except does not name
json_loads_ValueError(content) ==
    CASE content.kind = "json" -> content.value
      [] content.kind = "text" -> Raised("ValueError")
      [] OTHER -> Raised("TypeError")

\* json.loads(content) of the first choice's message content
json_loads(content) ==
    CASE content.kind = "json" -> content.value
      [] content.kind = "text" -> Raised("JSONDecodeError")
      [] OTHER -> Raised("TypeError")

ErrorResult(message, exception_type) ==
    JDict([error |-> JStr(message), exception_type |-> JStr(exception_type)])

\* the try block without response.raise_for_status()
HandleResponse_no_status_check(outcome) ==
    IF outcome.kind /= "response"
    THEN ErrorResult("Mistral API request failed", outcome.kind)
    ELSE IF ~outcome.body_is_json
    THEN ErrorResult("Mistral API request failed", "JSONDecodeError")
    ELSE JDict([error |-> JStr("No valid response from Mistral API"),
                full_api_response |-> JStr("result")])

\* the try block of analyze_with_mistral after requests.post: what it returns
\* for the outcome of the request
HandleResponse(outcome) ==
    IF outcome.kind /= "response"
    THEN ErrorResult("Mistral API request failed", outcome.kind)
    ELSE IF outcome.status >= 400
    THEN ErrorResult("Mistral API request failed", "HTTPError")
    ELSE IF ~outcome.body_is_json
    THEN ErrorResult("Mistral API request failed", "JSONDecodeError")
    ELSE IF outcome.choices = <<>>
    THEN JDict([error |-> JStr("No valid response from Mistral API"),
                full_api_response |-> JStr("result")])
    ELSE IF outcome.choices[1].kind = "missing"
    THEN ErrorResult("Unexpected error", "KeyError")
    ELSE LET content == outcome.choices[1]
             parsed == json_loads(content)
         IN  IF ~IsRaised(parsed) THEN parsed
             ELSE IF parsed.s = "JSONDecodeError"
             THEN JDict([error |-> JStr("Failed to parse Mistral response as JSON"),
                         raw_response |-> JStr(content.raw),
                         full_api_response |-> JStr("result")])
             ELSE ErrorResult("Unexpected error", parsed.s)

----------------------------------------------------------------------------
(* reporting: _generate_report_content *)

\* one string appended to `content`
L(kind, n, text) == <<kind, n, text>>

\* a run of appends: the strings appended, and the exception that ended the
\* run if one did ("" when it ran to its end)
Ok(lines) == [exc |-> "", lines |-> lines]
Exc(e) == [exc |-> e, lines |-> <<>>]
Cat(a, b) ==
    IF a.exc /= "" THEN a
    ELSE [exc |-> b.exc, lines |-> a.lines \o b.lines]

\* a step that runs only when `cond` holds
When(cond, r) == IF cond THEN r ELSE Ok(<<>>)

\* mistral_analysis.get(key, default); an AttributeError when it is no dict
MGet(ma, key, default) == Get(ma.d, key, default)

\* f"{value:.2f}": numbers and bools format, everything else raises
FormatF(kind, v) ==
    CASE v.t \in {"num", "bool"} -> Ok(<<L(kind, v.n, "")>>)
      [] v.t = "str" -> Exc("ValueError")
      [] OTHER -> Exc("TypeError")

\* what iterating over a value yields, and whether it can be iterated at all
Iterable(v) == v.t \in {"list", "str", "dict"}
ItemCount(v) ==
    CASE v.t = "list" -> v.n
      [] v.t = "str" -> Len(v.s)
      [] v.t = "dict" -> Cardinality(DOMAIN v.d)
      [] OTHER -> 0

\* len(value)
LenOf(kind, v) == IF Iterable(v) THEN Ok(<<L(kind, ItemCount(v), "")>>) ELSE Exc("TypeError")

\* for item in value: content.append(f"- {item}\n")
Items(key, v) ==
    IF Iterable(v) THEN Ok([i \in 1..ItemCount(v) |-> L("item", i, key)])
    ELSE Exc("TypeError")

\* one append of a heading followed by the joined items of value
Joined(kind, v) == IF Iterable(v) THEN Ok(<<L(kind, ItemCount(v), "")>>) ELSE Exc("TypeError")

\* if mistral_analysis.get(key): a heading, then one line per item
ItemBlock(ma, key, heading) ==
    LET v == MGet(ma, key, JNull)
    IN  When(Truthy(v), Cat(Ok(<<L("bold", 0, heading)>>), Items(key, v)))

\* f"{finding.get('line', 'Unknown')}": the line number as the report shows it
LineOf(finding) ==
    IF "line" \in DOMAIN finding THEN ToString(finding.line) ELSE "Unknown"

\* the findings of a category listed last first
FindingLines_reversed(list, kind, field) ==
    [j \in 1..(3 * Len(list)) |->
        LET finding == list[Len(list) + 1 - ((j + 2) \div 3)]
        IN  CASE j % 3 = 1 -> L(kind, LineOf(finding), Get(finding, field, ""))
              [] j % 3 = 2 -> L("context", 0, Get(finding, "context", ""))
              [] OTHER -> L("blank", 0, "")]

\* the three lines appended for every finding of a category
FindingLines(list, kind, field) ==
    [j \in 1..(3 * Len(list)) |->
        LET finding == list[(j + 2) \div 3]
        IN  CASE j % 3 = 1 -> L(kind, LineOf(finding), Get(finding, field, ""))
              [] j % 3 = 2 -> L("context", 0, Get(finding, "context", ""))
              [] OTHER -> L("blank", 0, "")]

\* a category's subsection: its heading with the count, then its findings
CategorySection(pattern_analysis, category, heading, kind, field) ==
    LET list == Get(pattern_analysis, category, <<>>)
    IN  IF list /= <<>>
        THEN <<L("h3", Len(list), heading)>> \o FindingLines(list, kind, field)
        ELSE <<>>

PatternSection(pattern_analysis) ==
    IF DOMAIN pattern_analysis /= {}
    THEN <<L("h2", 0, "Pattern-Based Security Analysis")>>
         \o CategorySection(pattern_analysis, "passwords",
                            "Potential Passwords Found", "finding", "match")
         \o CategorySection(pattern_analysis, "api_keys",
                            "Potential API Keys Found", "finding", "match")
         \o CategorySection(pattern_analysis, "sensitive_data",
                            "Potential Sensitive Data Found", "finding", "match")
         \o CategorySection(pattern_analysis, "security_issues",
                            "Security Issues Found", "issue", "issue")
         \o <<L("rule", 0, "---")>>
    ELSE <<>>

\* the 'prompt_injection_detected' branch
PromptInjectionSection(ma) ==
    Cat(Ok(<<L("h3", 0, "Prompt Injection Analysis"),
             L("Detected", MGet(ma, "prompt_injection_detected", JBool(FALSE)).n,
               MGet(ma, "prompt_injection_detected", JBool(FALSE)).t)>>),
    Cat(FormatF("Confidence", MGet(ma, "confidence_score", JNum(0))),
    Cat(When(Truthy(MGet(ma, "vulnerabilities_found", JNull)),
             Joined("Vulnerabilities", MGet(ma, "vulnerabilities_found", JNull))),
    Cat(When(Truthy(MGet(ma, "analysis", JNull)), Ok(<<L("Analysis", 0, "analysis")>>)),
        When(Truthy(MGet(ma, "recommendations", JNull)),
             Joined("Recommendations", MGet(ma, "recommendations", JNull)))))))

\* the 'hallucination_risk_detected' branch
HallucinationSection(ma) ==
    Cat(Ok(<<L("h3", 0, "Hallucination Risk Analysis"),
             L("Risk Detected", MGet(ma, "hallucination_risk_detected", JBool(FALSE)).n,
               MGet(ma, "hallucination_risk_detected", JBool(FALSE)).t)>>),
    Cat(FormatF("Confidence", MGet(ma, "confidence_score", JNum(0))),
    Cat(When(Truthy(MGet(ma, "risk_factors", JNull)),
             Joined("Risk Factors", MGet(ma, "risk_factors", JNull))),
    Cat(When(Truthy(MGet(ma, "analysis", JNull)), Ok(<<L("Analysis", 0, "analysis")>>)),
        When(Truthy(MGet(ma, "recommendations", JNull)),
             Joined("Recommendations", MGet(ma, "recommendations", JNull)))))))

\* if issues: a heading and one line per issue (len(issues) has succeeded)
IssueBlock(key, heading, issues) ==
    When(Truthy(issues), Cat(Ok(<<L("bold", 0, heading)>>), Items(key, issues)))

\* the 'overall_security_score' branch
SecurityScoreSection(ma) ==
    LET critical == MGet(ma, "critical_issues", JList(0))
        medium == MGet(ma, "medium_issues", JList(0))
        low == MGet(ma, "low_issues", JList(0))
    IN  Cat(Ok(<<L("h3", 0, "Comprehensive Security Analysis")>>),
        Cat(FormatF("Overall Score", MGet(ma, "overall_security_score", JNum(0))),
        Cat(LenOf("Critical Issues", critical),
        Cat(LenOf("Medium Issues", medium),
        Cat(LenOf("Low Issues", low),
        Cat(IssueBlock("critical_issues", "Critical Issues", critical),
        Cat(IssueBlock("medium_issues", "Medium Issues", medium),
        Cat(IssueBlock("low_issues", "Low Issues", low),
        Cat(When(Truthy(MGet(ma, "detailed_analysis", JNull)),
                 Ok(<<L("Detailed Analysis", 0, "detailed_analysis")>>)),
            When(Truthy(MGet(ma, "remediation_recommendations", JNull)),
                 Joined("Remediation Recommendations",
                        MGet(ma, "remediation_recommendations", JNull))))))))))))

categories ==
    <<"immediate_actions", "code_refactoring", "configuration_changes",
      "monitoring_recommendations", "training_recommendations">>

RECURSIVE CategoryBlocks(_, _)
CategoryBlocks(ma, i) ==
    IF i > Len(categories) THEN Ok(<<>>)
    ELSE Cat(ItemBlock(ma, categories[i], categories[i]), CategoryBlocks(ma, i + 1))

\* the 'immediate_actions' branch
SecureCodingSection(ma) ==
    Cat(Ok(<<L("h3", 0, "Secure Coding Recommendations")>>), CategoryBlocks(ma, 1))

compliance_standards == <<"gdpr_compliance", "pci_dss_compliance", "hipaa_compliance">>

\* one standard of the compliance branch: compliance_data.get(...) needs a dict
StandardBlock(ma, standard) ==
    LET compliance_data == ma.d[standard]
    IN  IF compliance_data.t /= "dict" THEN Exc("AttributeError")
        ELSE Cat(Ok(<<L("compliance",
                        IF Truthy(MGet(compliance_data, "compliant", JBool(FALSE)))
                        THEN 1 ELSE 0,
                        standard)>>),
                 ItemBlock(compliance_data, "issues", "Issues"))

RECURSIVE StandardBlocks(_, _)
StandardBlocks(ma, i) ==
    IF i > Len(compliance_standards) THEN Ok(<<>>)
    ELSE Cat(When(compliance_standards[i] \in DOMAIN ma.d,
                  StandardBlock(ma, compliance_standards[i])),
             StandardBlocks(ma, i + 1))

\* the compliance branch
ComplianceSection(ma) ==
    Cat(Ok(<<L("h3", 0, "Compliance Analysis")>>),
    Cat(StandardBlocks(ma, 1),
    Cat(ItemBlock(ma, "owasp_top_10_violations", "OWASP Top 10 Violations"),
        ItemBlock(ma, "compliance_recommendations", "Compliance Recommendations"))))

\* the fallback: json.dumps(mistral_analysis, indent=2) in a fenced block
GenericSection(ma) ==
    Ok(<<L("h3", 0, "Mistral AI Analysis Results"), L("json", 0, ma.t)>>)

\* the chain written with `if` for every key instead of `elif`: one subsection
\* per well-known key present, the final else bound to the compliance test
AnalysisSubsection_if_chain(ma) ==
    IF InRaises(ma) THEN Exc("TypeError")
    ELSE IF ma.t /= "dict" THEN Exc("AttributeError")
    ELSE Cat(When(In("prompt_injection_detected", ma), PromptInjectionSection(ma)),
         Cat(When(In("hallucination_risk_detected", ma), HallucinationSection(ma)),
         Cat(When(In("overall_security_score", ma), SecurityScoreSection(ma)),
         Cat(When(In("immediate_actions", ma), SecureCodingSection(ma)),
         Cat(When(\E i \in 1..Len(compliance_standards) :
                      In(compliance_standards[i], ma),
                  ComplianceSection(ma)),
             When(\A i \in 1..Len(compliance_standards) :
                      ~In(compliance_standards[i], ma),
                  GenericSection(ma)))))))

\* the if/elif chain over the well-known keys
AnalysisSubsection(ma) ==
    IF InRaises(ma) THEN Exc("TypeError")
    ELSE IF In("prompt_injection_detected", ma)
    THEN IF ma.t /= "dict" THEN Exc("AttributeError") ELSE PromptInjectionSection(ma)
    ELSE IF In("hallucination_risk_detected", ma)
    THEN IF ma.t /= "dict" THEN Exc("AttributeError") ELSE HallucinationSection(ma)
    ELSE IF In("overall_security_score", ma)
    THEN IF ma.t /= "dict" THEN Exc("AttributeError") ELSE SecurityScoreSection(ma)
    ELSE IF In("immediate_actions", ma)
    THEN IF ma.t /= "dict" THEN Exc("AttributeError") ELSE SecureCodingSection(ma)
    ELSE IF \E i \in 1..Len(compliance_standards) : In(compliance_standards[i], ma)
    THEN IF ma.t /= "dict" THEN Exc("TypeError") ELSE ComplianceSection(ma)
    ELSE GenericSection(ma)

MistralSection(ma) ==
    When(Truthy(ma),
         Cat(Ok(<<L("h2", 0, "Mistral AI Analysis")>>),
         Cat(AnalysisSubsection(ma), Ok(<<L("rule", 0, "---")>>))))

CategoryNames == <<"passwords", "api_keys", "sensitive_data", "security_issues">>

\* len(pattern_findings.get(category, []))
Count(pattern_findings, category) == Len(Get(pattern_findings, category, <<>>))

\* the total without the security issues
PatternTotal_without_issues(pattern_findings) ==
    IF DOMAIN pattern_findings /= {}
    THEN Count(pattern_findings, "passwords") + Count(pattern_findings, "api_keys")
         + Count(pattern_findings, "sensitive_data")
    ELSE 0

PatternTotal(pattern_findings) ==
    IF DOMAIN pattern_findings /= {}
    THEN Count(pattern_findings, "passwords") + Count(pattern_findings, "api_keys")
         + Count(pattern_findings, "sensitive_data")
         + Count(pattern_findings, "security_issues")
    ELSE 0

\* the pattern part of the summary: the total, then the four counts
PatternSummary(pattern_findings) ==
    <<L("summary", PatternTotal(pattern_findings), "Pattern-Based Findings")>>
    \o IF DOMAIN pattern_findings /= {}
       THEN <<L("summary", Count(pattern_findings, "passwords"), "Passwords"),
              L("summary", Count(pattern_findings, "api_keys"), "API Keys"),
              L("summary", Count(pattern_findings, "sensitive_data"), "Sensitive Data"),
              L("summary", Count(pattern_findings, "security_issues"), "Security Issues")>>
       ELSE <<>>

\* the metrics of the summary, by the first well-known key found
MistralMetrics(ma) ==
    IF InRaises(ma) THEN Exc("TypeError")
    ELSE IF In("overall_security_score", ma)
    THEN IF ma.t /= "dict" THEN Exc("TypeError")
         ELSE Cat(FormatF("Security Score", ma.d["overall_security_score"]),
              Cat(LenOf("Critical Issues", MGet(ma, "critical_issues", JList(0))),
              Cat(LenOf("Medium Issues", MGet(ma, "medium_issues", JList(0))),
                  LenOf("Low Issues", MGet(ma, "low_issues", JList(0))))))
    ELSE IF In("prompt_injection_detected", ma)
    THEN IF ma.t /= "dict" THEN Exc("TypeError")
         ELSE Cat(Ok(<<L("Prompt Injection Detected",
                         ma.d["prompt_injection_detected"].n,
                         ma.d["prompt_injection_detected"].t)>>),
                  FormatF("Confidence", MGet(ma, "confidence_score", JNum(0))))
    ELSE IF In("hallucination_risk_detected", ma)
    THEN IF ma.t /= "dict" THEN Exc("TypeError")
         ELSE Cat(Ok(<<L("Hallucination Risk Detected",
                         ma.d["hallucination_risk_detected"].n,
                         ma.d["hallucination_risk_detected"].t)>>),
                  FormatF("Confidence", MGet(ma, "confidence_score", JNum(0))))
    ELSE Ok(<<>>)

MistralSummary(ma) ==
    IF Truthy(ma)
    THEN Cat(Ok(<<L("summary", 1, "Mistral AI Analysis: Completed")>>), MistralMetrics(ma))
    ELSE Ok(<<L("summary", 0, "Mistral AI Analysis: Not performed")>>)

Min(a, b) == IF a < b THEN a ELSE b

\* the recommendations without the [:3] slice: one line per item of the list
TopRecommendations_unsliced(ma) ==
    IF ma.t /= "dict" THEN Exc("TypeError")
    ELSE LET v == ma.d["remediation_recommendations"]
         IN  IF v.t \notin {"list", "str"} THEN Exc("TypeError")
             ELSE Ok([i \in 1..ItemCount(v) |->
                         L("top", i, "remediation_recommendations")])

\* mistral_analysis['remediation_recommendations'][:3], one line per item
TopRecommendations(ma) ==
    IF ma.t /= "dict" THEN Exc("TypeError")
    ELSE LET v == ma.d["remediation_recommendations"]
         IN  IF v.t \notin {"list", "str"} THEN Exc("TypeError")
             ELSE Ok([i \in 1..Min(ItemCount(v), 3) |->
                         L("top", i, "remediation_recommendations")])

\* the final recommendation with total_findings counting pattern findings only
Verdict_patterns_only(pattern_total, ma) ==
    IF pattern_total > 0
    THEN Cat(Ok(<<L("verdict", 1, "Review the findings above")>>),
             When(Truthy(ma) /\ In("remediation_recommendations", ma),
                  Cat(Ok(<<L("bold", 0, "Top Remediation Recommendations")>>),
                      TopRecommendations(ma))))
    ELSE Ok(<<L("verdict", 0, "No security issues detected")>>)

\* the final recommendation
Verdict(pattern_total, ma) ==
    LET total_findings == pattern_total + (IF Truthy(ma) THEN 1 ELSE 0)
    IN  IF total_findings > 0
        THEN Cat(Ok(<<L("verdict", 1, "Review the findings above")>>),
                 When(Truthy(ma) /\ In("remediation_recommendations", ma),
                      Cat(Ok(<<L("bold", 0, "Top Remediation Recommendations")>>),
                          TopRecommendations(ma))))
        ELSE Ok(<<L("verdict", 0, "No security issues detected")>>)

\* _generate_report_content(findings): the appends in order, or the exception
generate_report_content(findings) ==
    LET metadata == Get(findings, "metadata", EmptyDict)
        pattern_analysis == Get(findings, "pattern_analysis", EmptyDict)
        mistral_analysis == Get(findings, "mistral_analysis", JDict(EmptyDict))
    IN  Cat(Ok(<<L("h1", 0, "Security Analysis Report"),
                 L("Generated", 0, "report_date"),
                 L("rule", 0, "---"),
                 L("h2", 0, "Analysis Metadata"),
                 L("Content Length", Get(metadata, "content_length", 0), "characters"),
                 L("Line Count", Get(metadata, "line_count", 0), "lines"),
                 L("rule", 0, "---")>>),
        Cat(Ok(PatternSection(pattern_analysis)),
        Cat(MistralSection(mistral_analysis),
        Cat(Ok(<<L("h2", 0, "Summary")>>),
        Cat(Ok(PatternSummary(pattern_analysis)),
        Cat(MistralSummary(mistral_analysis),
            Verdict(PatternTotal(pattern_analysis), mistral_analysis)))))))

\* a directory of the file system: an entry that holds no report lines
Directory == <<L("directory", 0, "")>>

\* Path(output_path).parent
Parent(output_path) == IF output_path = "out/report.md" THEN "out" ELSE "."

IsDir(path, fs) == path = "." \/ (path \in DOMAIN fs /\ fs[path] = Directory)

\* parent.mkdir(parents=True, exist_ok=True)
mkdir(dir, fs) ==
    IF IsDir(dir, fs) THEN fs
    ELSE [path \in DOMAIN fs \cup {dir} |-> IF path = dir THEN Directory ELSE fs[path]]

\* generate_report opening the file in append mode
generate_report_appending(findings, output_path, fs) ==
    LET report_content == generate_report_content(findings)
        made == mkdir(Parent(output_path), fs)
    IN  IF report_content.exc /= "" THEN fs
        ELSE [path \in DOMAIN made \cup {output_path} |->
                 IF path /= output_path THEN made[path]
                 ELSE IF path \in DOMAIN made THEN made[path] \o report_content.lines
                 ELSE report_content.lines]

\* generate_report(findings, output_path): the file system afterwards; the
\* directory is made and the file opened for writing only once the content
\* has been generated, and open(output_path, 'w') needs the directory
generate_report(findings, output_path, fs) ==
    LET report_content == generate_report_content(findings)
        made == mkdir(Parent(output_path), fs)
    IN  IF report_content.exc /= "" THEN fs
        ELSE IF ~IsDir(Parent(output_path), made) THEN made
        ELSE [path \in DOMAIN made \cup {output_path} |->
                 IF path = output_path THEN report_content.lines ELSE made[path]]

----------------------------------------------------------------------------
(* Text: a str is the sequence of its characters *)

LowercaseSeq == <<"a", "b", "c", "d", "e", "f", "g", "h", "i", "j", "k", "l", "m", "n", "o", "p", "q", "r", "s", "t", "u", "v", "w", "x", "y", "z">>
UppercaseSeq == <<"A", "B", "C", "D", "E", "F", "G", "H", "I", "J", "K", "L", "M", "N", "O", "P", "Q", "R", "S", "T", "U", "V", "W", "X", "Y", "Z">>
Lowercase == {LowercaseSeq[i] : i \in 1..Len(LowercaseSeq)}
Uppercase == {UppercaseSeq[i] : i \in 1..Len(UppercaseSeq)}
Digits == {"0", "1", "2", "3", "4", "5", "6", "7", "8", "9"}
Alnum == Lowercase \cup Uppercase \cup Digits

\* \w, \s and \d of the re module, within the modelled characters
WordChars == Alnum \cup {"_"}
Whitespace == {" ", "\t", "\n", "\r", "\f"}

LowerMap ==
    [c \in Uppercase |-> LowercaseSeq[CHOOSE i \in 1..Len(UppercaseSeq) : UppercaseSeq[i] = c]]

\* str.lower()
Lower(c) == IF c \in Uppercase THEN LowerMap[c] ELSE c
lower(text) == [i \in 1..Len(text) |-> Lower(text[i])]

RECURSIVE Flatten(_)
Flatten(seqs) == IF seqs = <<>> THEN <<>> ELSE Head(seqs) \o Flatten(Tail(seqs))

\* str.strip()
RECURSIVE lstrip(_)
lstrip(text) ==
    IF text /= <<>> /\ Head(text) \in Whitespace THEN lstrip(Tail(text)) ELSE text
RECURSIVE rstrip(_)
rstrip(text) ==
    IF text /= <<>> /\ text[Len(text)] \in Whitespace
    THEN rstrip(SubSeq(text, 1, Len(text) - 1)) ELSE text
strip(text) == rstrip(lstrip(text))

\* the length of the run of non-whitespace characters that text starts with
RECURSIVE WordLen(_)
WordLen(text) ==
    IF text = <<>> \/ Head(text) \in Whitespace THEN 0 ELSE 1 + WordLen(Tail(text))

\* str.split(): the runs of non-whitespace characters
RECURSIVE split(_)
split(text) ==
    LET rest == lstrip(text)
        n == WordLen(rest)
    IN  IF rest = <<>> THEN <<>>
        ELSE <<SubSeq(rest, 1, n)>> \o split(SubSeq(rest, n + 1, Len(rest)))

\* sep.join(parts)
RECURSIVE join(_, _)
join(sep, parts) ==
    IF parts = <<>> THEN <<>>
    ELSE IF Len(parts) = 1 THEN parts[1]
    ELSE parts[1] \o sep \o join(sep, Tail(parts))

LineBreaks == {"\n", "\r", "\f"}

\* the length of the run of characters before the first line break
RECURSIVE LineLen(_)
LineLen(text) ==
    IF text = <<>> \/ Head(text) \in LineBreaks THEN 0 ELSE 1 + LineLen(Tail(text))

\* the split in which a final break opens one more, empty line
RECURSIVE splitlines_final_line(_)
splitlines_final_line(text) ==
    LET n == LineLen(text)
        break == IF n + 2 <= Len(text) /\ text[n + 1] = "\r" /\ text[n + 2] = "\n"
                 THEN 2 ELSE 1
    IN  IF n = Len(text) THEN <<text>>
        ELSE <<SubSeq(text, 1, n)>>
             \o splitlines_final_line(SubSeq(text, n + break + 1, Len(text)))

\* str.splitlines(): "\r\n" is one break, and a final break opens no line
RECURSIVE splitlines(_)
splitlines(text) ==
    LET n == LineLen(text)
        break == IF n + 2 <= Len(text) /\ text[n + 1] = "\r" /\ text[n + 2] = "\n"
                 THEN 2 ELSE 1
    IN  IF text = <<>> THEN <<>>
        ELSE IF n = Len(text) THEN <<text>>
        ELSE <<SubSeq(text, 1, n)>> \o splitlines(SubSeq(text, n + break + 1, Len(text)))

----------------------------------------------------------------------------
(* re: patterns that are a sequence of repeated character classes *)

\* cls{min,max}; max = -1 is no upper limit
Rep(cls, min, max) == <<[cls |-> cls, min |-> min, max |-> max]>>
One(cls) == Rep(cls, 1, 1)
Opt(cls) == Rep(cls, 0, 1)
Star(cls) == Rep(cls, 0, -1)
Plus(cls) == Rep(cls, 1, -1)
Lit(chars) == [i \in 1..Len(chars) |-> [cls |-> {chars[i]}, min |-> 1, max |-> 1]]

\* whether the character is in the class, under re.IGNORECASE when ic
InClass(c, cls, ic) == c \in cls \/ (ic /\ Lower(c) \in cls)

\* how many characters from pos on are in the class, up to max
RECURSIVE Run(_, _, _, _, _)
Run(line, pos, cls, ic, max) ==
    IF max = 0 \/ pos > Len(line) \/ ~InClass(line[pos], cls, ic) THEN 0
    ELSE 1 + Run(line, pos + 1, cls, ic, max - 1)

\* the position after the match of pattern[k..] at pos, 0 when there is none:
\* each repeat is greedy and gives characters back one at a time
RECURSIVE MatchHere(_, _, _, _, _), TryCount(_, _, _, _, _, _)
MatchHere(pattern, k, line, pos, ic) ==
    IF k > Len(pattern) THEN pos
    ELSE TryCount(pattern, k, line, pos, ic,
                  Run(line, pos, pattern[k].cls, ic, pattern[k].max))
TryCount(pattern, k, line, pos, ic, count) ==
    IF count < pattern[k].min THEN 0
    ELSE LET end == MatchHere(pattern, k + 1, line, pos + count, ic)
         IN  IF end /= 0 THEN end
             ELSE TryCount(pattern, k, line, pos, ic, count - 1)

\* re.finditer(pattern, line): the non-overlapping matches from left to right
RECURSIVE FindFrom(_, _, _, _)
FindFrom(pattern, line, pos, ic) ==
    IF pos > Len(line) THEN <<>>
    ELSE LET end == MatchHere(pattern, 1, line, pos, ic)
         IN  IF end = 0 THEN FindFrom(pattern, line, pos + 1, ic)
             ELSE <<SubSeq(line, pos, end - 1)>> \o FindFrom(pattern, line, end, ic)
finditer(pattern, line, ic) == FindFrom(pattern, line, 1, ic)

\* re.search(pattern, line) is not None
search(pattern, line, ic) == finditer(pattern, line, ic) /= <<>>

----------------------------------------------------------------------------
(* securityinstructions: analyze_security *)

\* the literal parts of the patterns
PASSWORD == <<"p", "a", "s", "s", "w", "o", "r", "d">>
PASSWD == <<"p", "a", "s", "s", "w", "d">>
PWD == <<"p", "w", "d">>
API == <<"a", "p", "i">>
KEY == <<"k", "e", "y">>
SECRET == <<"s", "e", "c", "r", "e", "t">>
TOKEN == <<"t", "o", "k", "e", "n">>
EVAL_PAREN == <<"e", "v", "a", "l", "(">>
EXEC_PAREN == <<"e", "x", "e", "c", "(">>
PICKLE_LOAD == <<"p", "i", "c", "k", "l", "e", ".", "l", "o", "a", "d">>
HTTP == <<"h", "t", "t", "p", ":", "/", "/">>
BACKSLASHES == <<"\\", "\\">>

\* [:=][\w\-]+ after a keyword, with no whitespace allowed
KeyValue_no_space(keyword) ==
    Lit(keyword) \o One({":", "="}) \o Plus(WordChars \cup {"-"})

\* [\s]*[:=][\s]*[\w\-]+ after a keyword
KeyValue(keyword) ==
    Lit(keyword) \o Star(Whitespace) \o One({":", "="}) \o Star(Whitespace)
    \o Plus(WordChars \cup {"-"})

password_patterns ==
    <<KeyValue(PASSWORD), KeyValue(PASSWD), KeyValue(PWD)>>

\* the patterns with [A-Za-z0-9]{33,} for the long runs
api_key_patterns_33 ==
    <<Lit(API) \o Star(Whitespace) \o KeyValue(KEY),
      KeyValue(SECRET),
      KeyValue(TOKEN),
      Rep(Alnum, 33, -1)>>

api_key_patterns ==
    <<Lit(API) \o Star(Whitespace) \o KeyValue(KEY),
      KeyValue(SECRET),
      KeyValue(TOKEN),
      Rep(Alnum, 32, -1)>>

EmailLocal == Alnum \cup {".", "_", "%", "+", "-"}
EmailDomain == Alnum \cup {".", "-"}

sensitive_patterns ==
    <<Rep(Digits, 4, 4) \o Opt(Whitespace \cup {"-"}) \o Rep(Digits, 4, 4)
          \o Opt(Whitespace \cup {"-"}) \o Rep(Digits, 4, 4)
          \o Opt(Whitespace \cup {"-"}) \o Rep(Digits, 4, 4),
      Rep(Digits, 3, 3) \o Opt(Whitespace \cup {"-"}) \o Rep(Digits, 2, 2)
          \o Opt(Whitespace \cup {"-"}) \o Rep(Digits, 4, 4),
      Plus(EmailLocal) \o One({"@"}) \o Plus(EmailDomain) \o One({"."})
          \o Rep(Lowercase \cup Uppercase, 2, -1)>>

security_issue_patterns ==
    <<[pattern |-> Lit(EVAL_PAREN), description |-> "Use of eval() function"],
      [pattern |-> Lit(EXEC_PAREN), description |-> "Use of exec() function"],
      [pattern |-> Lit(PICKLE_LOAD), description |-> "Use of pickle.load()"],
      [pattern |-> Lit(HTTP), description |-> "Insecure HTTP protocol"],
      [pattern |-> Lit(BACKSLASHES), description |-> "Potential path traversal"]>>

\* the findings of a line numbered as enumerate(lines) would, from 0
LineMatches_from_zero(patterns, line, i, ic) ==
    Flatten([p \in 1..Len(patterns) |->
        LET matches == finditer(patterns[p], line, ic)
        IN  [m \in 1..Len(matches) |->
                [line |-> i - 1, match |-> matches[m], context |-> strip(line)]]])

\* for pattern in patterns: for match in re.finditer(pattern, line, flags)
LineMatches(patterns, line, i, ic) ==
    Flatten([p \in 1..Len(patterns) |->
        LET matches == finditer(patterns[p], line, ic)
        IN  [m \in 1..Len(matches) |->
                [line |-> i, match |-> matches[m], context |-> strip(line)]]])

\* the loops nested the other way round: for pattern: for i, line
Matches_pattern_major(patterns, lines, ic) ==
    Flatten([p \in 1..Len(patterns) |->
        Flatten([i \in 1..Len(lines) |-> LineMatches(<<patterns[p]>>, lines[i], i, ic)])])

\* for i, line in enumerate(lines, 1): the findings of one category
Matches(patterns, lines, ic) ==
    Flatten([i \in 1..Len(lines) |-> LineMatches(patterns, lines[i], i, ic)])

\* the search without re.IGNORECASE
LineIssues_case_sensitive(line, i) ==
    Flatten([p \in 1..Len(security_issue_patterns) |->
        IF search(security_issue_patterns[p].pattern, line, FALSE)
        THEN <<[line |-> i, issue |-> security_issue_patterns[p].description,
                context |-> strip(line)]>>
        ELSE <<>>])

\* for pattern, description in security_issue_patterns: if re.search(...)
LineIssues(line, i) ==
    Flatten([p \in 1..Len(security_issue_patterns) |->
        IF search(security_issue_patterns[p].pattern, line, TRUE)
        THEN <<[line |-> i, issue |-> security_issue_patterns[p].description,
                context |-> strip(line)]>>
        ELSE <<>>])

analyze_security(content) ==
    LET lines == IF content /= <<>> THEN splitlines(content) ELSE <<>>
    IN  [metadata |->
            [content_length |-> Len(content),
             line_count |-> IF content /= <<>> THEN Len(splitlines(content)) ELSE 0],
         findings |->
            [passwords |-> Matches(password_patterns, lines, TRUE),
             api_keys |-> Matches(api_key_patterns, lines, TRUE),
             sensitive_data |-> Matches(sensitive_patterns, lines, FALSE),
             security_issues |-> Flatten([i \in 1..Len(lines) |-> LineIssues(lines[i], i)])]]

----------------------------------------------------------------------------
(* parsing/textfile: parse_text *)

\* the preprocessing options of args, applied in the order of the code
parse_text(content, options) ==
    LET lowered == IF options.lowercase THEN lower(content) ELSE content
        stripped == IF options.strip THEN strip(lowered) ELSE lowered
        squeezed == IF options.remove_whitespace
                    THEN join(<<" ">>, split(stripped)) ELSE stripped
        kept == LET lines == splitlines(squeezed)
                IN  Flatten([i \in 1..Len(lines) |->
                        IF strip(lines[i]) /= <<>> THEN <<strip(lines[i])>> ELSE <<>>])
    IN  IF options.lines THEN join(<<"\n">>, kept) ELSE squeezed

----------------------------------------------------------------------------
(* The inputs of the client: keys, analysis types, findings, remote outcomes *)

ApiKeys == {None, "", "sk-arg"}
EnvKeys == {None, "", "sk-env"}
Guidances == {"", "advisor guidance"}

AnalysisTypes == DOMAIN prompts \cup {"sentiment"}

\* security_findings as a caller passes them: None, an empty dict, findings
SomeFindings ==
    JDict([metadata |-> JDict([line_count |-> JNum(1)]),
           findings |-> JDict([passwords |-> JList(1)])])

FindingsArgs == {JNull, JDict(EmptyDict), SomeFindings}

Choice(kind, value, raw) == [kind |-> kind, value |-> value, raw |-> raw]

\* the message contents a 200 response may carry
Contents ==
    {Choice("json", JDict(EmptyDict), "{}"),
     Choice("json", JDict([overall_security_score |-> JNum(85)]), "{score}"),
     Choice("json", JDict([overall_security_score |-> JStr("high")]), "{score: 'high'}"),
     Choice("json", JDict([error |-> JStr("model overloaded")]), "{error}"),
     Choice("json", JList(2), "[a, b]"),
     Choice("json", JNull, "null"),
     Choice("text", JNull, "Sorry, I cannot"),
     Choice("text", JNull, ""),
     Choice("none", JNull, ""),
     Choice("missing", JNull, "")}

Outcome(kind, status, body_is_json, choices) ==
    [kind |-> kind, status |-> status, body_is_json |-> body_is_json,
     choices |-> choices]

NoOutcome == Outcome("none", 0, FALSE, <<>>)

TransportFailures == {"ConnectionError", "Timeout"}

ErrorStatuses == {400, 401, 429, 500, 503}

Outcomes ==
    {Outcome(k, 0, FALSE, <<>>) : k \in TransportFailures}
    \cup {Outcome("response", st, TRUE, <<>>) : st \in ErrorStatuses}
    \cup {Outcome("response", 200, FALSE, <<>>),
          Outcome("response", 200, TRUE, <<>>)}
    \cup {Outcome("response", 200, TRUE, <<c>>) : c \in Contents}
    \cup {Outcome("response", 200, TRUE,
                  <<Choice("text", JNull, "draft"), Choice("json", JDict(EmptyDict), "{}")>>)}

----------------------------------------------------------------------------
(* The client on its own: construct a MistralClient, call analyze_with_mistral *)

MaxRequests == 2

NoArgs ==
    [api_key |-> None, text |-> "", analysis_type |-> "", security_findings |-> JNull,
     before |-> 0, outcome |-> NoOutcome]

InitClient ==
    /\ pc = "new"
    /\ args = NoArgs
    /\ env \in EnvKeys
    /\ guidance \in Guidances
    /\ client = JNull
    /\ requests = <<>>
    /\ result = JNull
    /\ files = EmptyDict
    /\ locals = EmptyDict

\* MistralClient(api_key)
Construct(api_key) ==
    /\ pc = "new"
    /\ args' = [args EXCEPT !.api_key = api_key]
    /\ client' = MistralClient(api_key)
    /\ pc' = IF IsRaised(client') THEN "ctor_failed" ELSE "constructed"
    /\ UNCHANGED <<env, guidance, requests, result, files, locals>>

\* client.analyze_with_mistral(text, analysis_type, security_findings), up to
\* and including requests.post
Call(text, analysis_type, security_findings) ==
    /\ pc \in {"constructed", "returned", "raised"}
    /\ Len(requests) < MaxRequests
    /\ LET formatted_prompt ==
               FormattedPrompt(JStr(text), analysis_type, security_findings)
       IN  /\ args' = [args EXCEPT !.text = text,
                                   !.analysis_type = analysis_type,
                                   !.security_findings = security_findings,
                                   !.before = Len(requests),
                                   !.outcome = NoOutcome]
           /\ IF IsRaised(formatted_prompt)
              THEN /\ pc' = "raised"
                   /\ result' = formatted_prompt
                   /\ UNCHANGED requests
              ELSE /\ pc' = "requesting"
                   /\ result' = JNull
                   /\ requests' = Append(requests, Post(client.s, formatted_prompt))
    /\ UNCHANGED <<env, guidance, client, files, locals>>

\* the rest of analyze_with_mistral, once requests.post has returned or raised
Respond(outcome) ==
    /\ pc = "requesting"
    /\ args' = [args EXCEPT !.outcome = outcome]
    /\ result' = HandleResponse(outcome)
    /\ pc' = "returned"
    /\ UNCHANGED <<env, guidance, client, requests, files, locals>>

NextClient ==
    \/ \E api_key \in ApiKeys : Construct(api_key)
    \/ \E text \in {"some text"}, analysis_type \in AnalysisTypes,
          security_findings \in FindingsArgs :
          Call(text, analysis_type, security_findings)
    \/ \E outcome \in Outcomes : Respond(outcome)

SpecClient == InitClient /\ [][NextClient]_vars

----------------------------------------------------------------------------
(* The inputs of the renderer *)

MaxFindings == 2
MaxItems == 4
MaxKeys == 2

Finding(line, match, context) == [line |-> line, match |-> match, context |-> context]
Issue(line, issue, context) == [line |-> line, issue |-> issue, context |-> context]

\* findings as analyze_security appends them, a category's list being a prefix
FindingPool(category) ==
    CASE category = "passwords" ->
            <<Finding(1, "password=test", "password=test"),
              Finding(3, "pwd: hunter2", "login pwd: hunter2"),
              Finding(3, "passwd=x", "passwd=x # passwd=x")>>
      [] category = "api_keys" ->
            <<Finding(2, "token=abc", "token=abc"),
              Finding(2, "secret: s3", "secret: s3"),
              Finding(4, "api key=k", "api key=k")>>
      [] category = "sensitive_data" ->
            <<Finding(1, "a@b.com", "Contact: a@b.com"),
              Finding(5, "123-45-6789", "ssn 123-45-6789"),
              Finding(6, "c@d.org", "c@d.org")>>
      [] category = "security_issues" ->
            <<Issue(2, "Use of eval() function", "eval(x)"),
              Issue(2, "Insecure HTTP protocol", "eval(x) http://h"),
              Issue(7, "Use of exec() function", "exec(y)")>>

Prefix(seq, n) == [i \in 1..Min(n, Len(seq)) |-> seq[i]]

\* the 'findings' dict of analyze_security with the given number of findings
FindingSet(p, a, s, i) ==
    [passwords |-> Prefix(FindingPool("passwords"), p),
     api_keys |-> Prefix(FindingPool("api_keys"), a),
     sensitive_data |-> Prefix(FindingPool("sensitive_data"), s),
     security_issues |-> Prefix(FindingPool("security_issues"), i)]

FindingSets ==
    {FindingSet(p, a, s, i) : p \in 0..MaxFindings, a \in 0..MaxFindings,
                              s \in 0..MaxFindings, i \in 0..MaxFindings}

Metadata == [content_length |-> 100, line_count |-> 7]

\* the keys an analysis payload may hold, and the values tried for each
PayloadKeys ==
    {"prompt_injection_detected", "hallucination_risk_detected",
     "overall_security_score", "immediate_actions", "gdpr_compliance",
     "pci_dss_compliance", "hipaa_compliance", "confidence_score",
     "recommendations", "critical_issues", "remediation_recommendations",
     "code_refactoring", "owasp_top_10_violations", "analysis", "summary"}

ComplianceData(compliant, issues) ==
    JDict([compliant |-> JBool(compliant), issues |-> JList(issues)])

ValuesOf(key) ==
    CASE key \in {"prompt_injection_detected", "hallucination_risk_detected"} ->
            {JBool(TRUE), JNull}
      [] key \in {"overall_security_score", "confidence_score"} ->
            {JNum(85), JStr("high"), JNull}
      [] key = "remediation_recommendations" ->
            {JList(n) : n \in 0..MaxItems} \cup {JNull}
      [] key \in {"recommendations", "critical_issues"} ->
            {JList(0), JList(2), JNull, JNum(1)}
      [] key \in {"immediate_actions", "code_refactoring", "owasp_top_10_violations"} ->
            {JList(1), JBool(TRUE)}
      [] key \in {"gdpr_compliance", "hipaa_compliance"} ->
            {ComplianceData(TRUE, 0), ComplianceData(FALSE, 1), JStr("n/a")}
      [] key = "pci_dss_compliance" -> {ComplianceData(TRUE, 0)}
      [] key = "analysis" -> {JStr("the analysis"), JStr("")}
      [] OTHER -> {JStr("all good")}

PayloadValues == UNION {ValuesOf(key) : key \in PayloadKeys}

\* every dict of at most MaxKeys of these keys
Payloads ==
    UNION {{JDict(f) : f \in {g \in [K -> PayloadValues] :
                                 \A key \in K : g[key] \in ValuesOf(key)}} :
           K \in {K \in SUBSET PayloadKeys : Cardinality(K) <= MaxKeys}}

FewPayloads ==
    {JDict(EmptyDict),
     JDict([overall_security_score |-> JNum(85),
            remediation_recommendations |-> JList(2)]),
     JDict([summary |-> JStr("all good")])}

FewFindingSets == {FindingSet(0, 0, 0, 0), FindingSet(1, 0, 0, 1)}

\* pattern_analysis dicts with absent categories and findings lacking keys
SparseFindingSets ==
    {[passwords |-> <<[line |-> 4], Finding(5, "pwd=b", "pwd=b")>>],
     [api_keys |-> <<>>, security_issues |-> <<[context |-> "exec(y)"]>>],
     [sensitive_data |-> <<[match |-> "a@b.com"], EmptyDict>>,
      security_issues |-> <<[line |-> 2, issue |-> "Use of exec() function"]>>]}

\* the dict main builds: metadata, pattern_analysis, mistral_analysis
Enhanced(metadata, pattern_analysis, mistral_analysis) ==
    [metadata |-> metadata, pattern_analysis |-> pattern_analysis,
     mistral_analysis |-> mistral_analysis]

\* the dict analyze_security returns: metadata, findings
Scanned(metadata, finding_set) == [metadata |-> metadata, findings |-> finding_set]

RenderInputs ==
    {Enhanced(Metadata, pa, ma) : pa \in FindingSets \cup {EmptyDict}, ma \in FewPayloads}
    \cup {Enhanced(Metadata, pa, ma) : pa \in FewFindingSets \cup {EmptyDict}, ma \in Payloads}
    \cup {Scanned(Metadata, fs) : fs \in FindingSets}
    \cup {Enhanced(md, pa, ma) : md \in {Metadata, EmptyDict}, pa \in SparseFindingSets,
                                 ma \in FewPayloads}
    \cup {[pattern_analysis |-> fs] : fs \in FewFindingSets}
    \cup {EmptyDict}

Paths == {"report.md", "out/report.md"}

----------------------------------------------------------------------------
(* The renderer on its own: generate_report on a findings dict *)

InitRender ==
    /\ pc = "idle"
    /\ args = [findings |-> EmptyDict, output_path |-> ""]
    /\ env = None
    /\ guidance = ""
    /\ client = JNull
    /\ requests = <<>>
    /\ result = Ok(<<>>)
    /\ files = EmptyDict
    /\ locals = EmptyDict

\* generate_report(findings, output_path): result keeps the appends made
\* and the exception, if any, that kept the file from being written
GenerateReport(findings, output_path) ==
    /\ pc = "idle"
    /\ args' = [findings |-> findings, output_path |-> output_path]
    /\ files' = generate_report(findings, output_path, files)
    /\ result' = generate_report_content(findings)
    /\ pc' = IF result'.exc /= "" THEN "report_failed" ELSE "written"
    /\ UNCHANGED <<env, guidance, client, requests, locals>>

NextRender ==
    \E findings \in RenderInputs, output_path \in Paths :
        GenerateReport(findings, output_path)

SpecRender == InitRender /\ [][NextRender]_vars

----------------------------------------------------------------------------
(* The renderer called again and again: generate_report on paths that may
   already hold a report *)

MaxReports == 3

\* a report left at the path by an earlier run
StaleReport ==
    <<L("h1", 0, "Security Analysis Report"), L("Generated", 0, "an earlier date"),
      L("rule", 0, "---"), L("h2", 0, "Analysis Metadata"),
      L("Content Length", 9999, "characters"), L("Line Count", 99, "lines"),
      L("rule", 0, "---"), L("h2", 0, "Summary"),
      L("summary", 9, "Pattern-Based Findings"), L("verdict", 1, "Review the findings above"),
      L("stale", 0, "end of the earlier report")>>

\* short and long reports, and one the renderer cannot format
RepeatInputs ==
    {Enhanced(Metadata, pa, ma) : pa \in FewFindingSets, ma \in FewPayloads}
    \cup {Enhanced(Metadata, EmptyDict, JDict([overall_security_score |-> JNull]))}

\* locals lists the calls made so far
InitReports ==
    /\ pc = "idle"
    /\ args = [findings |-> EmptyDict, output_path |-> ""]
    /\ env = None
    /\ guidance = ""
    /\ client = JNull
    /\ requests = <<>>
    /\ result = Ok(<<>>)
    /\ files \in {EmptyDict, [path \in {"report.md"} |-> StaleReport]}
    /\ locals = <<>>

\* one more call of generate_report(findings, output_path)
GenerateAgain(findings, output_path) ==
    /\ Len(locals) < MaxReports
    /\ locals' = Append(locals, [findings |-> findings, output_path |-> output_path])
    /\ args' = [findings |-> findings, output_path |-> output_path]
    /\ files' = generate_report(findings, output_path, files)
    /\ result' = generate_report_content(findings)
    /\ pc' = IF result'.exc /= "" THEN "report_failed" ELSE "written"
    /\ UNCHANGED <<env, guidance, client, requests>>

NextReports ==
    \E findings \in RepeatInputs, output_path \in Paths :
        GenerateAgain(findings, output_path)

SpecReports == InitReports /\ [][NextReports]_vars

----------------------------------------------------------------------------
(* mistral_client: analyze_with_mistral_api, and main *)

\* analyze_with_mistral_api up to requests.post: the prompt to send, or the
\* error dict its except clauses make of an exception
PrepareAnalysis(text, api_key, analysis_type, security_findings) ==
    LET constructed == MistralClient(api_key)
        formatted_prompt == FormattedPrompt(text, analysis_type, security_findings)
    IN  IF IsRaised(constructed)
        THEN JDict([error |-> JStr("Mistral API key not provided")])
        ELSE IF IsRaised(formatted_prompt)
        THEN IF formatted_prompt.s = "ValueError"
             THEN JDict([error |-> JStr("Unknown prompt type")])
             ELSE JDict([error |-> JStr("Failed to initialize Mistral client")])
        ELSE formatted_prompt

\* analyze_with_mistral_api(text, api_key, analysis_type, security_findings)
\* when the request, if one is made, ends with `outcome`
analyze_with_mistral_api(text, api_key, analysis_type, security_findings, outcome) ==
    LET prepared == PrepareAnalysis(text, api_key, analysis_type, security_findings)
    IN  IF In("error", prepared) THEN prepared ELSE HandleResponse(outcome)

\* main without its `'error' in mistral_analysis` test: an error result is kept
KeptAnalysis_errors_kept(mistral_analysis) ==
    IF IsRaised(mistral_analysis) \/ InRaises(mistral_analysis)
    THEN JDict(EmptyDict)
    ELSE mistral_analysis

\* main, after the call: an error result or an exception leaves no analysis
KeptAnalysis(mistral_analysis) ==
    IF IsRaised(mistral_analysis) \/ InRaises(mistral_analysis)
           \/ In("error", mistral_analysis)
    THEN JDict(EmptyDict)
    ELSE mistral_analysis

\* step 4 of main: the enhanced findings handed to generate_report
EnhancedFindings(security_findings, mistral_analysis) ==
    [metadata |-> IF DOMAIN security_findings /= {}
                  THEN Get(security_findings, "metadata", EmptyDict) ELSE EmptyDict,
     pattern_analysis |-> IF DOMAIN security_findings /= {}
                          THEN Get(security_findings, "findings", EmptyDict) ELSE EmptyDict,
     mistral_analysis |-> mistral_analysis]

\* main without its `if not api_key` test
MissingKey_never(api_key) == FALSE

\* `if not api_key` in step 3 of main
MissingKey(api_key) == ~Given(api_key)

\* the local variables of main
Locals(parsed_content, security_findings, mistral_analysis, reports) ==
    [parsed_content |-> parsed_content, security_findings |-> security_findings,
     mistral_analysis |-> mistral_analysis, reports |-> reports]

\* the locals before main runs; reports lists the calls of generate_report
NoLocals == Locals(<<>>, EmptyDict, JDict(EmptyDict), <<>>)

Returned(code) == [t |-> "return", n |-> code, s |-> "", d |-> EmptyDict]

\* step 4 of main with a return of 0 whatever generate_report did
Report4_always_zero(parsed_content, security_findings, mistral_analysis) ==
    LET enhanced_findings == EnhancedFindings(security_findings, mistral_analysis)
    IN  /\ files' = generate_report(enhanced_findings, args.output, files)
        /\ locals' = Locals(parsed_content, security_findings, mistral_analysis,
                            <<enhanced_findings>>)
        /\ result' = Returned(0)
        /\ pc' = "exited"

\* step 4 of main and its return: 0 once the report is written, 1 when
\* generate_report raised
Report4(parsed_content, security_findings, mistral_analysis) ==
    LET enhanced_findings == EnhancedFindings(security_findings, mistral_analysis)
        failed == generate_report_content(enhanced_findings).exc /= ""
    IN  /\ files' = generate_report(enhanced_findings, args.output, files)
        /\ locals' = Locals(parsed_content, security_findings, mistral_analysis,
                            <<enhanced_findings>>)
        /\ result' = Returned(IF failed THEN 1 ELSE 0)
        /\ pc' = "exited"

\* main from its start to its return or to the requests.post of step 3
MainStart ==
    /\ pc = "start"
    /\ IF args.input_file \notin DOMAIN files
       THEN /\ result' = Returned(1)
            /\ pc' = "exited"
            /\ UNCHANGED <<files, locals, client, requests>>
       ELSE LET content == files[args.input_file]
                parsed_content == parse_text(content, args)
                security_findings ==
                    IF ~args.no_patterns THEN analyze_security(parsed_content)
                    ELSE EmptyDict
                api_key == Or(args.mistral_key, env)
                prepared ==
                    PrepareAnalysis(JStr("parsed_content"), api_key, args.analysis_type,
                                    IF DOMAIN security_findings /= {}
                                    THEN JDict(security_findings) ELSE JNull)
            IN  IF ~args.mistral
                THEN /\ Report4(parsed_content, security_findings, JDict(EmptyDict))
                     /\ UNCHANGED <<client, requests>>
                ELSE IF MissingKey(api_key)
                THEN /\ result' = Returned(1)
                     /\ pc' = "exited"
                     /\ locals' = Locals(parsed_content, security_findings,
                                         JDict(EmptyDict), <<>>)
                     /\ UNCHANGED <<files, client, requests>>
                ELSE IF In("error", prepared)
                THEN /\ Report4(parsed_content, security_findings, KeptAnalysis(prepared))
                     /\ client' = MistralClient(api_key)
                     /\ UNCHANGED requests
                ELSE /\ requests' = Append(requests, Post(api_key, prepared))
                     /\ client' = MistralClient(api_key)
                     /\ locals' = Locals(parsed_content, security_findings,
                                         JDict(EmptyDict), <<>>)
                     /\ pc' = "requesting"
                     /\ UNCHANGED <<result, files>>
    /\ UNCHANGED <<args, env, guidance>>

\* main from the return of requests.post to its own return
MainRespond(outcome) ==
    /\ pc = "requesting"
    /\ args' = [args EXCEPT !.outcome = outcome]
    /\ Report4(locals.parsed_content, locals.security_findings,
               KeptAnalysis(HandleResponse(outcome)))
    /\ UNCHANGED <<env, guidance, client, requests>>

----------------------------------------------------------------------------
(* The runs of main: the command line, the environment, the input file *)

\* the contents of the input file
T1 ==
    <<"a", "l", "l", " ", "c", "l", "e", "a", "n", " ", "h", "e", "r", "e", "\n">>
T2 ==
    <<" ", " ", "P", "a", "s", "s", "w", "o", "r", "d", ":", " ", "h", "u", "n", "t", "e", "r", "2", "\n", "e", "v", "a", "l", "(", "x", ")", "\n">>
T3 ==
    <<"p", "w", "d", "=", "a", "\n", "\n", "T", "O", "K", "E", "N", " ", "=", " ", "b", " ", "h", "t", "t", "p", ":", "/", "/", "h", " ", "\n">>

SampleTexts ==
    {<<>>,
     T1,
     T2,
     T3}

Flags == {<<FALSE, FALSE, FALSE, FALSE>>, <<TRUE, FALSE, FALSE, FALSE>>,
          <<FALSE, TRUE, FALSE, TRUE>>, <<FALSE, FALSE, TRUE, FALSE>>,
          <<TRUE, TRUE, TRUE, TRUE>>}

MainArgs ==
    {[input_file |-> "input.txt", output |-> output,
      lowercase |-> flags[1], strip |-> flags[2], remove_whitespace |-> flags[3],
      lines |-> flags[4], mistral |-> mistral, mistral_key |-> mistral_key,
      analysis_type |-> analysis_type, no_patterns |-> no_patterns,
      outcome |-> NoOutcome] :
        output \in {"report.md"}, flags \in Flags, mistral \in BOOLEAN,
        mistral_key \in ApiKeys, analysis_type \in DOMAIN prompts,
        no_patterns \in BOOLEAN}

Init ==
    /\ pc = "start"
    /\ args \in MainArgs
    /\ env \in EnvKeys
    /\ guidance \in Guidances
    /\ client = JNull
    /\ requests = <<>>
    /\ result = JNull
    /\ files \in {EmptyDict} \cup {[path \in {"input.txt"} |-> text] : text \in SampleTexts}
    /\ locals = NoLocals

Next ==
    \/ MainStart
    \/ \E outcome \in Outcomes : MainRespond(outcome)

Spec == Init /\ [][Next]_vars

----------------------------------------------------------------------------
(* The scanner on its own: analyze_security applied to a text *)

MaxAtoms == 2
MaxLines == 3

\* str * n
RECURSIVE Repeat(_, _)
Repeat(chars, n) == IF n = 0 THEN <<>> ELSE chars \o Repeat(chars, n - 1)

\* the pieces the scanned lines are made of
AtomText ==
    [pw1 |-> <<"p", "a", "s", "s", "w", "o", "r", "d", ":", " ", "h", "u", "n", "t", "e", "r", "2">>,
     PW1 |-> <<"P", "A", "S", "S", "W", "O", "R", "D", "=", "h", "u", "n", "t", "e", "r", "2">>,
     pw2 |-> <<"p", "a", "s", "s", "w", "d", "=", "h", "u", "n", "t", "e", "r", "2">>,
     pw3 |-> <<"p", "w", "d", " ", "=", " ", "a", "-", "b">>,
     pw3z |-> <<"p", "w", "d", "=", "z">>,
     ak1 |-> <<"a", "p", "i", " ", "k", "e", "y", ":", " ", "k", "9">>,
     ak2 |-> <<"s", "e", "c", "r", "e", "t", "=", "s", "3">>,
     ak3 |-> <<"T", "o", "k", "e", "n", " ", "=", " ", "t", "_", "1">>,
     ssn |-> <<"1", "2", "3", "-", "4", "5", "-", "6", "7", "8", "9">>,
     em |-> <<"a", "@", "b", ".", "i", "o">>,
     ev |-> <<"e", "v", "a", "l", "(", "x", ")">>,
     EX |-> <<"E", "X", "E", "C", "(", "y", ")">>,
     pk |-> <<"p", "i", "c", "k", "l", "e", ".", "l", "o", "a", "d">>,
     ht |-> <<"h", "t", "t", "p", ":", "/", "/", "h">>,
     bs |-> <<"c", ":", "\\", "\\", "d">>,
     hi |-> <<"h", "e", "l", "l", "o">>,
     ind |-> <<"\t", "x">>,
     run31 |-> Repeat(<<"a", "1", "B", "2", "c", "3", "D", "4">>, 3) \o <<"e", "5", "F", "6", "g", "7", "H">>,
     run32 |-> Repeat(<<"a", "b", "c", "d", "0", "1", "2", "3">>, 4),
     run33 |-> Repeat(<<"Z", "y", "9", "X", "w", "8", "V", "u">>, 4) \o <<"7">>]

AtomNames == DOMAIN AtomText

\* a line is its atoms separated by single spaces
ScanLines(atom_names, max) == UNION {[1..n -> atom_names] : n \in 0..max}
LineText(line) == join(<<" ">>, [j \in 1..Len(line) |-> AtomText[line[j]]])

PairAtoms == {"pw1", "pw3", "pw3z", "ak1", "run32", "em", "ev", "EX", "hi", "ind"}
FewAtoms == {"pw1", "pw3z", "ak3", "ev", "hi"}

\* the texts scanned: one line of one atom or of up to MaxAtoms of PairAtoms,
\* or up to MaxLines lines of at most one of FewAtoms; every line ends with
\* eol, the last one only if `final` (a last line that is empty always does)
ScanInputs ==
    {[lines |-> lines, eol |-> eol, final |-> final] :
        lines \in {<<line>> : line \in ScanLines(AtomNames, 1)
                                       \cup ScanLines(PairAtoms, MaxAtoms)}
                  \cup UNION {[1..n -> ScanLines(FewAtoms, 1)] : n \in 0..MaxLines},
        eol \in {<<"\n">>, <<"\r", "\n">>},
        final \in BOOLEAN}

Ended(input) ==
    input.final \/ (input.lines /= <<>> /\ input.lines[Len(input.lines)] = <<>>)

\* the content of the file
ContentOf(input) ==
    Flatten([i \in 1..Len(input.lines) |->
                LineText(input.lines[i])
                \o IF i < Len(input.lines) \/ Ended(input) THEN input.eol ELSE <<>>])

InitScan ==
    /\ pc = "unscanned"
    /\ args \in ScanInputs
    /\ env = None
    /\ guidance = ""
    /\ client = JNull
    /\ requests = <<>>
    /\ result = JNull
    /\ files = EmptyDict
    /\ locals = EmptyDict

\* findings = analyze_security(content)
Scan ==
    /\ pc = "unscanned"
    /\ result' = analyze_security(ContentOf(args))
    /\ pc' = "scanned"
    /\ UNCHANGED <<args, env, guidance, client, requests, files, locals>>

NextScan == Scan

SpecScan == InitScan /\ [][NextScan]_vars

----------------------------------------------------------------------------
(* The scanner called again and again: every call builds its findings dict
   anew, and the callers keep references to the dicts they were given *)

MaxScans == 3

\* the texts of the repeated scans
RescanInputs ==
    {[lines |-> lines, eol |-> <<"\n">>, final |-> TRUE] :
        lines \in {<<>>, <<<<"pw1">>>>, <<<<"hi">>>>, <<<<"ev">>, <<"hi">>>>,
                   <<<<"ak3", "em">>, <<>>, <<"pw1">>>>}}

\* the dict objects and the calls: locals.objects[ref] is the value of the
\* dict with that reference, locals.calls the text and the returned
\* reference of each call so far
NoCalls == [objects |-> <<>>, calls |-> <<>>]

\* a findings dict shared by all calls, as a module-level dict would be
NewFindings_module_level(objects) == 1

\* `findings = {...}`: the dict display makes a new object on every call
NewFindings(objects) == Len(objects) + 1

InitRescan ==
    /\ pc = "unscanned"
    /\ args = [lines |-> <<>>, eol |-> <<"\n">>, final |-> TRUE]
    /\ env = None
    /\ guidance = ""
    /\ client = JNull
    /\ requests = <<>>
    /\ result = JNull
    /\ files = EmptyDict
    /\ locals = NoCalls

\* findings = analyze_security(content), once more
ScanAgain(input) ==
    /\ Len(locals.calls) < MaxScans
    /\ LET findings == NewFindings(locals.objects)
           value == analyze_security(ContentOf(input))
       IN  /\ locals' =
                  [objects |-> IF findings > Len(locals.objects)
                               THEN Append(locals.objects, value)
                               ELSE [locals.objects EXCEPT ![findings] = value],
                   calls |-> Append(locals.calls,
                                    [input |-> input, findings |-> findings])]
           /\ result' = value
    /\ args' = input
    /\ pc' = "scanned"
    /\ UNCHANGED <<env, guidance, client, requests, files>>

NextRescan == \E input \in RescanInputs : ScanAgain(input)

SpecRescan == InitRescan /\ [][NextRescan]_vars

----------------------------------------------------------------------------
(* social_media_backend: POST /generate-post *)

MISTRAL_CHAT_COMPLETIONS_URL == "https://api.mistral.ai/v1/chat/completions"

\* the request payload; model defaults to "mistral-small-latest"
GeneratePostRequest(api_key, prompt, model) ==
    [api_key |-> api_key, prompt |-> prompt, model |-> model]

PostPayloads ==
    {GeneratePostRequest(api_key, prompt, model) :
        api_key \in {"sk-key", " sk-key "},
        prompt \in {"Write a post", ""},
        model \in {"mistral-small-latest", "mistral-large-latest"}}

\* what the remote endpoint may answer to the one request
PostStatuses == {400, 401, 403, 404, 429, 500, 502, 503}

PostOutcomes ==
    {Outcome(k, 0, FALSE, <<>>) : k \in TransportFailures}
    \cup {Outcome("response", st, TRUE, <<>>) : st \in PostStatuses}
    \cup {Outcome("response", 200, FALSE, <<>>),
          Outcome("response", 200, TRUE, <<>>),
          Outcome("response", 200, TRUE, <<Choice("text", JNull, "Launch day!")>>),
          Outcome("response", 200, TRUE, <<Choice("none", JNull, "")>>),
          Outcome("response", 200, TRUE, <<Choice("missing", JNull, "")>>)}

\* what the endpoint answers: the status, the detail of an error, the body
\* fields of a success, and the exception that left the handler unhandled
HttpResponse(status, detail, exception, post, model) ==
    [status |-> status, detail |-> detail, exception |-> exception,
     post |-> post, model |-> model, provider |-> IF status = 200 THEN "mistral" ELSE ""]

\* an exception that leaves generate_post: the server answers 500
Unhandled(exception) == HttpResponse(500, "Internal Server Error", exception, "", "")

\* generate_post after requests.post: nothing is caught, so a failure of the
\* request, raise_for_status, response.json() or the subscripts is unhandled
generate_post(payload, outcome) ==
    IF outcome.kind /= "response" THEN Unhandled(outcome.kind)
    ELSE IF outcome.status >= 400 THEN Unhandled("HTTPError")
    ELSE IF ~outcome.body_is_json THEN Unhandled("JSONDecodeError")
    ELSE IF outcome.choices = <<>> THEN Unhandled("IndexError")
    ELSE IF outcome.choices[1].kind = "missing" THEN Unhandled("KeyError")
    ELSE HttpResponse(200, "", "", outcome.choices[1].raw, payload.model)

NoResponse == HttpResponse(0, "", "", "", "")

InitPost ==
    /\ pc = "received"
    /\ args \in {[payload |-> payload, outcome |-> NoOutcome] : payload \in PostPayloads}
    /\ env = None
    /\ guidance = ""
    /\ client = JNull
    /\ requests = <<>>
    /\ result = NoResponse
    /\ files = EmptyDict
    /\ locals = EmptyDict

\* generate_post up to its requests.post call
GeneratePost ==
    /\ pc = "received"
    /\ requests' = Append(requests,
                          [url |-> MISTRAL_CHAT_COMPLETIONS_URL,
                           token |-> args.payload.api_key,
                           model |-> args.payload.model,
                           content |-> args.payload.prompt,
                           timeout |-> 60])
    /\ pc' = "posting"
    /\ UNCHANGED <<args, env, guidance, client, result, files, locals>>

\* the rest of generate_post, once requests.post has returned or raised
PostRespond(outcome) ==
    /\ pc = "posting"
    /\ args' = [args EXCEPT !.outcome = outcome]
    /\ result' = generate_post(args.payload, outcome)
    /\ pc' = "responded"
    /\ UNCHANGED <<env, guidance, client, requests, files, locals>>

NextPost ==
    \/ GeneratePost
    \/ \E outcome \in PostOutcomes : PostRespond(outcome)

SpecPost == InitPost /\ [][NextPost]_vars

----------------------------------------------------------------------------
(* Claims about the client, checked under SpecClient *)

CallEnded == pc \in {"returned", "raised"}

RequestsOfCall == Len(requests) - args.before

\* C2: a call of analyze_with_mistral with one of the five supported analysis
\* types, with or without security findings, issues exactly one network
\* request: never zero, never a second one.
C2_ExactlyOneRequest ==
    (CallEnded /\ args.analysis_type \in DOMAIN prompts) => RequestsOfCall = 1

\* C3: with an analysis type outside the five, analyze_with_mistral fails with
\* the unknown-type ValueError before any request is issued, and no request
\* ever carries a template substituted for the unknown key.
C3_UnknownTypeFailsBeforeRequest ==
    /\ (pc \in {"requesting", "returned", "raised"}
            /\ args.analysis_type \notin DOMAIN prompts)
        => (pc = "raised" /\ result = Raised("ValueError") /\ RequestsOfCall = 0)
    /\ \A i \in 1..Len(requests) :
           \E ty \in DOMAIN prompts : requests[i].prompt.d.template = prompts[ty]

C3_Witness ==
    pc = "raised" /\ args.analysis_type = "sentiment" /\ Truthy(args.security_findings)

\* C4: when the request fails at the transport level or the response carries a
\* 4xx/5xx status, the call raises nothing and returns a dict with the keys
\* 'error' and 'exception_type'.
C4_TransportAndHttpFailuresReturnError ==
    (pc = "returned"
        /\ (args.outcome.kind \in TransportFailures
            \/ (args.outcome.kind = "response" /\ args.outcome.status >= 400)))
    => (result.t = "dict" /\ {"error", "exception_type"} \subseteq DOMAIN result.d)

C4_Witness ==
    /\ pc = "returned"
    /\ args.outcome.kind = "response"
    /\ args.outcome.status = 429
    /\ result.t = "dict"
    /\ "exception_type" \in DOMAIN result.d

\* C5: when the request succeeds and the first choice's content is text that
\* is not valid JSON, the call returns a dict with the keys 'error',
\* 'raw_response' (the unparsed content) and 'full_api_response'; when the
\* content is valid JSON it returns the parsed value.
FirstContent == args.outcome.choices[1]

Succeeded ==
    /\ pc = "returned"
    /\ args.outcome.kind = "response"
    /\ args.outcome.status < 400
    /\ args.outcome.body_is_json
    /\ args.outcome.choices /= <<>>

C6_CredentialResolution ==
    /\ pc /= "new" =>
        /\ Given(args.api_key) => client = JStr(args.api_key)
        /\ (~Given(args.api_key) /\ Given(env)) => client = JStr(env)
        /\ (~Given(args.api_key) /\ ~Given(env)) =>
               (client = Raised("ValueError") /\ pc = "ctor_failed" /\ requests = <<>>)
    /\ \A i \in 1..Len(requests) : Given(requests[i].token)

C6_Witness ==
    /\ pc = "ctor_failed"
    /\ args.api_key = ""
    /\ env = None

\* the prompt of the request that the current call issued
PromptSent == requests[Len(requests)].prompt.d

\* C22: analyze_with_mistral appends the advisor-guidance suffix to the
\* formatted prompt exactly when the guidance is non-empty and the analysis
\* type is prompt_injection, security_analysis or secure_coding; for
\* hallucination and compliance the prompt sent is the formatted template
\* with no suffix.
C22_GuidanceSuffix ==
    (pc \in {"requesting", "returned"} /\ RequestsOfCall = 1) =>
        /\ PromptSent.template = prompts[args.analysis_type]
        /\ PromptSent.text = JStr(args.text)
        /\ PromptSent.guidance \in {JStr(""), JStr(guidance)}
        /\ PromptSent.guidance /= JStr("") <=>
               /\ guidance /= ""
               /\ args.analysis_type \in
                      {"prompt_injection", "security_analysis", "secure_coding"}
        /\ args.analysis_type \in {"hallucination", "compliance"} =>
               PromptSent.guidance = JStr("")

C22_Witness ==
    /\ pc = "returned"
    /\ RequestsOfCall = 1
    /\ guidance /= ""
    /\ args.analysis_type = "secure_coding"
    /\ PromptSent.guidance = JStr(guidance)
    /\ \E i \in 1..Len(requests) - 1 :
           /\ requests[i].prompt.d.template = prompts["compliance"]
           /\ requests[i].prompt.d.guidance = JStr("")

----------------------------------------------------------------------------
(* Claims about the renderer, checked under SpecRender *)

\* the content of the file generate_report wrote
Report == files[args.output_path]

Contains(lines, line) == \E i \in 1..Len(lines) : lines[i] = line

InputPasswords == args.findings["findings"]["passwords"]

\* C8: generate_report, given a dict in the shape analyze_security returns
\* (keys 'metadata' and 'findings', N >= 1 entries under findings.passwords),
\* writes a report with the heading 'Potential Passwords Found (N)' and the
\* line number of each password finding.
C8_ScannerShapeListsPasswords ==
    (pc /= "idle"
        /\ DOMAIN args.findings = {"metadata", "findings"}
        /\ Len(InputPasswords) >= 1)
    => /\ pc = "written"
       /\ Contains(Report, L("h3", Len(InputPasswords), "Potential Passwords Found"))
       /\ \A k \in 1..Len(InputPasswords) :
              \E i \in 1..Len(Report) :
                  Report[i][1] = "finding" /\ Report[i][2] = ToString(InputPasswords[k].line)

InputPatterns == Get(args.findings, "pattern_analysis", EmptyDict)

InputAnalysis == Get(args.findings, "mistral_analysis", JDict(EmptyDict))

RECURSIVE SumLen(_, _)
SumLen(dict, keys) ==
    IF keys = {} THEN 0
    ELSE LET key == CHOOSE k \in keys : TRUE
         IN  Len(dict[key]) + SumLen(dict, keys \ {key})

\* the number of findings in the four category lists of the input
InputTotal == SumLen(InputPatterns, DOMAIN InputPatterns)

NoIssuesLine == L("verdict", 0, "No security issues detected")
ReviewLine == L("verdict", 1, "Review the findings above")

LastLine == Report[Len(Report)]

HasAnalysis == DOMAIN InputAnalysis.d /= {}

VerdictIndex == CHOOSE i \in 1..Len(Report) : Report[i][1] = "verdict"

TopHeading == L("bold", 0, "Top Remediation Recommendations")

\* the recommendation lines of the report, in the order they appear
TopLines == SelectSeq(Report, LAMBDA line : line[1] = "top")

\* C23: when the analysis payload holds a remediation_recommendations list of
\* length n, the closing summary of the report lists exactly min(n, 3) of
\* them, the first ones in list order, under one 'Top Remediation
\* Recommendations' heading; when the payload has no such key the report
\* holds neither the heading nor a recommendation line.
C23_TopThreeRecommendations ==
    pc = "written" =>
        IF "remediation_recommendations" \in DOMAIN InputAnalysis.d
        THEN LET v == InputAnalysis.d["remediation_recommendations"]
                 shown == IF v.n < 3 THEN v.n ELSE 3
             IN  v.t = "list" =>
                    /\ TopLines = [i \in 1..shown |->
                                      L("top", i, "remediation_recommendations")]
                    /\ Len(Report) > shown
                    /\ Report[Len(Report) - shown] = TopHeading
                    /\ \A i \in 1..shown :
                           Report[Len(Report) - shown + i] = TopLines[i]
                    /\ Cardinality({i \in 1..Len(Report) : Report[i] = TopHeading}) = 1
        ELSE /\ TopLines = <<>>
             /\ ~Contains(Report, TopHeading)

\* a list of four recommendations, of which the report shows the first three
C23_Witness ==
    /\ pc = "written"
    /\ "remediation_recommendations" \in DOMAIN InputAnalysis.d
    /\ InputAnalysis.d["remediation_recommendations"] = JList(4)
    /\ Len(TopLines) = 3
    /\ LastLine = L("top", 3, "remediation_recommendations")

\* the heading of each analysis subsection, by the key that selects it
SubsectionOf ==
    [prompt_injection_detected |-> "Prompt Injection Analysis",
     hallucination_risk_detected |-> "Hallucination Risk Analysis",
     overall_security_score |-> "Comprehensive Security Analysis",
     immediate_actions |-> "Secure Coding Recommendations",
     gdpr_compliance |-> "Compliance Analysis",
     pci_dss_compliance |-> "Compliance Analysis",
     hipaa_compliance |-> "Compliance Analysis"]

GenericHeading == "Mistral AI Analysis Results"

AnalysisHeadings == {SubsectionOf[k] : k \in DOMAIN SubsectionOf} \cup {GenericHeading}

\* the analysis subsections begun, in a run that ended or raised
Subsections ==
    {i \in 1..Len(result.lines) :
        result.lines[i][1] = "h3" /\ result.lines[i][3] \in AnalysisHeadings}

WellKnownPresent == DOMAIN InputAnalysis.d \cap DOMAIN SubsectionOf

\* C10: for a non-empty payload the renderer emits exactly one analysis
\* subsection of the six, one selected by a well-known key that is present,
\* and the generic JSON block only if no well-known key is present; for an
\* empty or absent payload it emits no analysis section.
C10_ExactlyOneSubsection ==
    pc /= "idle" =>
        IF HasAnalysis
        THEN /\ Contains(result.lines, L("h2", 0, "Mistral AI Analysis"))
             /\ Cardinality(Subsections) = 1
             /\ \A i \in Subsections :
                    IF WellKnownPresent = {}
                    THEN result.lines[i][3] = GenericHeading
                    ELSE \E k \in WellKnownPresent : result.lines[i][3] = SubsectionOf[k]
             /\ (\E i \in 1..Len(result.lines) : result.lines[i][1] = "json")
                    <=> WellKnownPresent = {}
        ELSE /\ ~Contains(result.lines, L("h2", 0, "Mistral AI Analysis"))
             /\ Subsections = {}

C10_Witness ==
    /\ pc = "written"
    /\ Cardinality(WellKnownPresent) = 2
    /\ Cardinality(Subsections) = 1

\* C11: _generate_report_content returns a report and never raises, whatever
\* the findings dict: absent top-level keys, findings lacking line, match or
\* context, payloads whose well-known keys come with missing, null or
\* unexpectedly typed companion values.
C11_RendererNeverRaises ==
    pc /= "idle" => result.exc = "" /\ pc = "written"

\* len(pattern_analysis.get(category, [])) of the input
InputCount(category) == Len(Get(InputPatterns, category, <<>>))

\* the numbers a reader finds in the summary under the given label
SummaryCounts(label) ==
    {Report[i][2] : i \in {j \in 1..Len(Report) :
                               Report[j][1] = "summary" /\ Report[j][3] = label}}

\* the number a reader finds in a category's heading, if the heading is there
HeadingCounts(heading) ==
    {Report[i][2] : i \in {j \in 1..Len(Report) :
                               Report[j][1] = "h3" /\ Report[j][3] = heading}}

SummaryLabels ==
    [passwords |-> "Passwords", api_keys |-> "API Keys",
     sensitive_data |-> "Sensitive Data", security_issues |-> "Security Issues"]

CategoryHeadings ==
    [passwords |-> "Potential Passwords Found", api_keys |-> "Potential API Keys Found",
     sensitive_data |-> "Potential Sensitive Data Found",
     security_issues |-> "Security Issues Found"]

\* C12: for every FindingSet passed as pattern_analysis, the per-category
\* counts read back from the written report equal the lengths of the four
\* category lists, in the summary and in every category heading, and the
\* reported total of pattern-based findings equals their sum.
C12_CountsRoundTrip ==
    (pc = "written" /\ DOMAIN InputPatterns /= {}) =>
        /\ \A c \in DOMAIN SummaryLabels :
               /\ SummaryCounts(SummaryLabels[c]) = {InputCount(c)}
               /\ HeadingCounts(CategoryHeadings[c]) \subseteq {InputCount(c)}
        /\ SummaryCounts("Pattern-Based Findings") =
               {InputCount("passwords") + InputCount("api_keys")
                + InputCount("sensitive_data") + InputCount("security_issues")}

C12_Witness ==
    /\ pc = "written"
    /\ InputCount("passwords") = 2
    /\ InputCount("security_issues") = 1
    /\ InputCount("api_keys") = 0
    /\ SummaryCounts("Pattern-Based Findings") = {3}
    /\ HeadingCounts("Potential Passwords Found") = {2}

\* the positions of a category's heading among the appended strings
HeadingAt(heading) ==
    {i \in 1..Len(result.lines) :
        result.lines[i][1] = "h3" /\ result.lines[i][3] = heading}

\* the strings that show a finding: line number with match or issue, context
Shown(finding, kind, field) ==
    <<L(kind, IF "line" \in DOMAIN finding THEN ToString(finding.line) ELSE "Unknown",
        IF field \in DOMAIN finding THEN finding[field] ELSE ""),
      L("context", 0, IF "context" \in DOMAIN finding THEN finding.context ELSE "")>>

\* a category's subsection is there exactly when its list is non-empty, once,
\* and holds the findings of the list in order, each followed by a blank
SubsectionListsAll(category, kind, field) ==
    LET list == Get(InputPatterns, category, <<>>)
        at == HeadingAt(CategoryHeadings[category])
    IN  /\ Cardinality(at) = IF list = <<>> THEN 0 ELSE 1
        /\ \A i \in at :
               /\ i + 3 * Len(list) <= Len(result.lines)
               /\ \A k \in 1..Len(list) :
                      /\ result.lines[i + 3 * k - 2] = Shown(list[k], kind, field)[1]
                      /\ result.lines[i + 3 * k - 1] = Shown(list[k], kind, field)[2]
                      /\ result.lines[i + 3 * k][1] = "blank"
               /\ i + 3 * Len(list) + 1 <= Len(result.lines)
               /\ result.lines[i + 3 * Len(list) + 1][1] \in {"h3", "rule"}

\* C13: when pattern_analysis is non-empty the renderer emits a subsection for
\* exactly the categories whose list is non-empty, and within each lists every
\* finding of the category exactly once, with its line number, its match (or
\* issue description) and its context, in the order of the input list.
C13_SubsectionPerNonEmptyCategory ==
    (pc /= "idle" /\ DOMAIN InputPatterns /= {}) =>
        /\ SubsectionListsAll("passwords", "finding", "match")
        /\ SubsectionListsAll("api_keys", "finding", "match")
        /\ SubsectionListsAll("sensitive_data", "finding", "match")
        /\ SubsectionListsAll("security_issues", "issue", "issue")
        /\ Cardinality({i \in 1..Len(result.lines) :
                            result.lines[i][1] \in {"finding", "issue"}})
               = InputCount("passwords") + InputCount("api_keys")
                 + InputCount("sensitive_data") + InputCount("security_issues")

C13_Witness ==
    /\ pc = "written"
    /\ InputCount("passwords") = 2
    /\ InputCount("api_keys") = 0
    /\ InputCount("security_issues") = 2
    /\ HeadingAt("Potential API Keys Found") = {}
    /\ \E i \in HeadingAt("Security Issues Found") :
           /\ result.lines[i + 1] = L("issue", "2", "Use of eval() function")
           /\ result.lines[i + 4] = L("issue", "2", "Insecure HTTP protocol")

\* the metric that opens the summary's analysis block, by analysis shape
SummaryMetricOf ==
    [prompt_injection_detected |-> "Prompt Injection Detected",
     hallucination_risk_detected |-> "Hallucination Risk Detected",
     overall_security_score |-> "Security Score"]

\* C27: for every analysis payload, one with several well-known keys
\* included, the metrics of the report's summary belong to the same analysis
\* shape as the subsection rendered in the body: a summary metric of a shape
\* appears only in a report whose body subsection is that shape's.
C27_SummaryMatchesBody ==
    (pc = "written" /\ HasAnalysis) =>
        \A k \in DOMAIN SummaryMetricOf :
            (\E i \in 1..Len(Report) : Report[i][1] = SummaryMetricOf[k])
                => Contains(Report, L("h3", 0, SubsectionOf[k]))

----------------------------------------------------------------------------
(* Claims about repeated reports, checked under SpecReports *)

\* the calls on the path that got as far as writing the file
WritesOn(path) ==
    {i \in 1..Len(locals) :
        /\ locals[i].output_path = path
        /\ generate_report_content(locals[i].findings).exc = ""}

LastWriteOn(path) == CHOOSE i \in WritesOn(path) : \A j \in WritesOn(path) : j <= i

ReportOf(call) == generate_report_content(call.findings).lines

\* C24: generate_report creates the missing parent directory of its
\* destination and replaces the content of the target file: after any
\* sequence of calls the file at a path holds exactly the report of the last
\* call that wrote to it, nothing of an earlier report, and a path no call
\* wrote to is left as it was.
C24_LastReportReplaces ==
    /\ \A path \in Paths :
           IF WritesOn(path) /= {}
           THEN /\ path \in DOMAIN files
                /\ files[path] = ReportOf(locals[LastWriteOn(path)])
                /\ IsDir(Parent(path), files)
           ELSE path \in DOMAIN files => files[path] = StaleReport
    /\ pc = "written" => files[args.output_path] = result.lines

\* three reports written to out/report.md, the last one shorter than the
\* one before it, in a directory that the first call had to create
C24_Witness ==
    /\ Len(locals) = 3
    /\ WritesOn("out/report.md") = {1, 2, 3}
    /\ Len(ReportOf(locals[3])) < Len(ReportOf(locals[2]))
    /\ ReportOf(locals[1]) /= ReportOf(locals[3])
    /\ files["out"] = Directory
    /\ files["out/report.md"] = ReportOf(locals[3])

----------------------------------------------------------------------------
(* Claims about main, checked under Spec *)

\* the run asked for Mistral analysis and had a key to give the client
AnalysisAttempted ==
    /\ pc = "exited"
    /\ args.input_file \in DOMAIN files
    /\ args.mistral
    /\ Given(Or(args.mistral_key, env))

\* the external call ended in a failure: an exception from the client before
\* the request, a network error, an HTTP 4xx/5xx, a response body that is no
\* JSON or holds no choice, a first choice whose content is missing, null or
\* not JSON
CallFailed ==
    \/ requests = <<>>
    \/ args.outcome.kind \in TransportFailures
    \/ args.outcome.kind = "response" /\ args.outcome.status >= 400
    \/ args.outcome.kind = "response" /\ ~args.outcome.body_is_json
    \/ args.outcome.kind = "response" /\ args.outcome.choices = <<>>
    \/ /\ args.outcome.kind = "response"
       /\ args.outcome.choices /= <<>>
       /\ args.outcome.choices[1].kind \in {"text", "none", "missing"}

NotPerformedLine == L("summary", 0, "Mistral AI Analysis: Not performed")

\* C1: in main, when Mistral analysis is enabled with an API key and the
\* external call ends in any failure, generate_report is still called, the
\* report states that Mistral AI analysis was not performed, and main
\* returns 0.
C1_FailedAnalysisStillReports ==
    (AnalysisAttempted /\ CallFailed) =>
        /\ Len(locals.reports) = 1
        /\ args.output \in DOMAIN files
        /\ Contains(files[args.output], NotPerformedLine)
        /\ result = Returned(0)

C1_Witness ==
    /\ AnalysisAttempted
    /\ Len(requests) = 1
    /\ args.outcome.kind = "response"
    /\ args.outcome.status = 500
    /\ locals.security_findings.findings.passwords /= <<>>
    /\ Contains(files[args.output], NotPerformedLine)
    /\ result = Returned(0)

\* C7: in main, when Mistral analysis is requested and neither --mistral-key
\* nor MISTRAL_API_KEY provides a key, main returns 1, no external request is
\* made, generate_report is never called and no report file is written.
C7_MissingKeyAborts ==
    (pc = "exited" /\ args.mistral /\ ~Given(args.mistral_key) /\ ~Given(env)) =>
        /\ result = Returned(1)
        /\ requests = <<>>
        /\ locals.reports = <<>>
        /\ args.output \notin DOMAIN files

C7_Witness ==
    /\ pc = "exited"
    /\ args.input_file \in DOMAIN files
    /\ args.mistral
    /\ args.mistral_key = ""
    /\ env = None
    /\ locals.parsed_content /= <<>>
    /\ result = Returned(1)
    /\ args.output \notin DOMAIN files

\* steps 1 and 2 of main are done: the locals hold the preprocessed text of
\* the input file and what the scan of it found
ScanDone ==
    /\ args.input_file \in DOMAIN files
    /\ locals.parsed_content = parse_text(files[args.input_file], args)
    /\ locals.security_findings =
           IF args.no_patterns THEN EmptyDict
           ELSE analyze_security(locals.parsed_content)

ReportWritten == args.output \in DOMAIN files

\* C21: main runs its steps in the order read file, scan, optional external
\* analysis, render report: an external request is made only once the scan
\* is done and while no report is written, the report is written at most
\* once per run and from the scan's results, and main returns 0 exactly when
\* the report was written and 1 otherwise, as when the input file is missing.
C21_StepOrder ==
    /\ Len(locals.reports) <= 1
    /\ Len(requests) <= 1
    /\ requests /= <<>> => ScanDone /\ args.mistral
    /\ pc = "requesting" => ~ReportWritten /\ locals.reports = <<>>
    /\ ReportWritten =>
           /\ pc = "exited"
           /\ ScanDone
           /\ Len(locals.reports) = 1
           /\ locals.reports[1].pattern_analysis =
                  Get(locals.security_findings, "findings", EmptyDict)
           /\ files[args.output] = generate_report_content(locals.reports[1]).lines
    /\ pc = "exited" =>
           /\ result \in {Returned(0), Returned(1)}
           /\ result = Returned(0) <=> ReportWritten
    /\ (pc = "exited" /\ args.input_file \notin DOMAIN files) =>
           result = Returned(1) /\ locals = NoLocals /\ requests = <<>>

\* a run that scanned, called the remote service, got an analysis the
\* renderer cannot format, and so returned 1 with no report written
C21_Witness ==
    /\ pc = "exited"
    /\ ScanDone
    /\ ~args.no_patterns
    /\ locals.security_findings.findings.passwords /= <<>>
    /\ Len(requests) = 1
    /\ args.outcome.kind = "response"
    /\ args.outcome.status = 200
    /\ Len(locals.reports) = 1
    /\ ~ReportWritten
    /\ result = Returned(1)

\* the remote call succeeded: status 200 and a first choice whose content
\* parses to a JSON object
ObjectReturned ==
    /\ pc = "exited"
    /\ Len(requests) = 1
    /\ args.outcome.kind = "response"
    /\ args.outcome.status = 200
    /\ args.outcome.body_is_json
    /\ args.outcome.choices /= <<>>
    /\ args.outcome.choices[1].kind = "json"
    /\ args.outcome.choices[1].value.t = "dict"

\* C28: in main, whatever JSON object the remote service returns on a
\* successful call, with any keys and any value types for the well-known
\* keys (a string or null for overall_security_score, say), a report is
\* still written and main returns 0.
C28_AnyObjectStillReports ==
    ObjectReturned =>
        /\ args.output \in DOMAIN files
        /\ result = Returned(0)

\* what the call of analyze_with_mistral_api in step 3 returned
ApiReturn ==
    analyze_with_mistral_api(JStr("parsed_content"), Or(args.mistral_key, env),
                             args.analysis_type,
                             IF DOMAIN locals.security_findings /= {}
                             THEN JDict(locals.security_findings) ELSE JNull,
                             args.outcome)

\* C29: analyze_with_mistral_api never raises and always returns a
\* dictionary, for every key, analysis type, findings argument and remote
\* outcome: the parsed analysis mapping, or an error-shaped dictionary that
\* holds the key 'error'.
C29_ApiAlwaysReturnsDict ==
    AnalysisAttempted =>
        /\ ~IsRaised(ApiReturn)
        /\ ApiReturn.t = "dict"
        /\ CallFailed => "error" \in DOMAIN ApiReturn.d

\* the number of lines the preprocessed text splits into
SplitCount(text) == IF text = <<>> THEN 0 ELSE Len(splitlines(text))

\* the metadata block shows the counts of the preprocessed text
MetadataShowsCounts ==
    /\ Contains(files[args.output],
                L("Content Length", Len(locals.parsed_content), "characters"))
    /\ Contains(files[args.output],
                L("Line Count", SplitCount(locals.parsed_content), "lines"))

\* C30: in every run of main that writes a report, runs with --no-patterns
\* included, the Content Length and Line Count of the report's metadata
\* block equal the character count and the line-split count of the
\* preprocessed input text.
C30_MetadataOfPreprocessedText ==
    (pc = "exited" /\ ReportWritten) => MetadataShowsCounts

----------------------------------------------------------------------------
(* Claims about the scanner, checked under SpecScan *)

\* what each atom is built to hit: the category and the position, in the
\* category's pattern list, of the one pattern that matches it
Hit(category, pattern) == [category |-> category, pattern |-> pattern]
AtomHit ==
    [pw1 |-> Hit("passwords", 1), PW1 |-> Hit("passwords", 1),
     pw2 |-> Hit("passwords", 2), pw3 |-> Hit("passwords", 3),
     pw3z |-> Hit("passwords", 3),
     ak1 |-> Hit("api_keys", 1), ak2 |-> Hit("api_keys", 2),
     ak3 |-> Hit("api_keys", 3), run31 |-> Hit("none", 0),
     run32 |-> Hit("api_keys", 4), run33 |-> Hit("api_keys", 4),
     ssn |-> Hit("sensitive_data", 2), em |-> Hit("sensitive_data", 3),
     ev |-> Hit("security_issues", 1), EX |-> Hit("security_issues", 2),
     pk |-> Hit("security_issues", 3), ht |-> Hit("security_issues", 4),
     bs |-> Hit("security_issues", 5), hi |-> Hit("none", 0),
     ind |-> Hit("none", 0)]

Scanned4 == <<"passwords", "api_keys", "sensitive_data", "security_issues">>

\* the places of line i whose atom is a hit of the category
HitsOn(i, category) ==
    {j \in 1..Len(args.lines[i]) : AtomHit[args.lines[i][j]].category = category}

\* the findings of the category that carry line number i
FoundOn(i, category) ==
    {k \in 1..Len(result.findings[category]) : result.findings[category][k].line = i}

RECURSIVE CharCount(_, _)
CharCount(input, i) ==
    IF i = 0 THEN 0
    ELSE CharCount(input, i - 1) + Len(LineText(input.lines[i]))
         + IF i < Len(input.lines) \/ Ended(input) THEN Len(input.eol) ELSE 0

\* C14: for every input text metadata.line_count is the number of line-split
\* segments of the text and 0 for empty input, metadata.content_length is the
\* number of characters, and empty input yields no findings in any category.
C14_MetadataCounts ==
    pc = "scanned" =>
        /\ result.metadata.line_count = Len(args.lines)
        /\ result.metadata.content_length = CharCount(args, Len(args.lines))
        /\ args.lines = <<>> =>
               /\ result.metadata.line_count = 0
               /\ result.metadata.content_length = 0
               /\ \A c \in 1..4 : result.findings[Scanned4[c]] = <<>>

C14_Witness ==
    /\ pc = "scanned"
    /\ Len(args.lines) = 3
    /\ args.lines[2] = <<>>
    /\ args.lines[3] /= <<>>
    /\ args.eol = <<"\r", "\n">>
    /\ ~args.final
    /\ result.metadata.line_count = 3

\* C15: in each of the four categories there is one finding per regex hit: a
\* line on which a category's pattern occurs k times contributes k findings
\* to that category.
C15_OneFindingPerHit ==
    pc = "scanned" =>
        \A i \in 1..Len(args.lines) : \A c \in 1..4 :
            Cardinality(FoundOn(i, Scanned4[c])) = Cardinality(HitsOn(i, Scanned4[c]))
\* the place of line i that holds the n-th atom with the given text
PlaceOf(i, chars, n) ==
    CHOOSE j \in 1..Len(args.lines[i]) :
        /\ AtomText[args.lines[i][j]] = chars
        /\ Cardinality({h \in 1..j : AtomText[args.lines[i][h]] = chars}) = n

\* the k-th finding of the list came from the pattern and the place of the
\* atom it shows: the n-th such atom of its line when it is the n-th finding
\* of the list with that line and match
OrderKey(list, k) ==
    LET n == Cardinality({h \in 1..k : /\ list[h].line = list[k].line
                                       /\ list[h].match = list[k].match})
        j == PlaceOf(list[k].line, list[k].match, n)
    IN  <<list[k].line, AtomHit[args.lines[list[k].line][j]].pattern, j>>

\* an issue finding came from the pattern that carries its description
IssueKey(finding) ==
    <<finding.line,
      CHOOSE p \in 1..Len(security_issue_patterns) :
          security_issue_patterns[p].description = finding.issue,
      0>>

\* discovery order: by line, then by pattern, then by place on the line
Before(a, b) ==
    \/ a[1] < b[1]
    \/ a[1] = b[1] /\ a[2] < b[2]
    \/ a[1] = b[1] /\ a[2] = b[2] /\ a[3] <= b[3]

\* C16: within every category of the FindingSet findings appear in order of
\* discovery: non-decreasing line number, on the same line in the order of
\* the category's pattern list, and for the same pattern by match position.
C16_DiscoveryOrder ==
    pc = "scanned" =>
        /\ \A c \in 1..3 :
               LET list == result.findings[Scanned4[c]]
               IN  \A k \in 1..(Len(list) - 1) :
                       Before(OrderKey(list, k), OrderKey(list, k + 1))
        /\ LET list == result.findings.security_issues
           IN  \A k \in 1..(Len(list) - 1) :
                   Before(IssueKey(list[k]), IssueKey(list[k + 1]))

\* on one line the later atom of an earlier pattern comes first
C16_Witness ==
    /\ pc = "scanned"
    /\ args.lines = <<<<"pw3z", "pw1">>>>
    /\ Len(result.findings.passwords) = 2
    /\ result.findings.passwords[1].match = AtomText["pw1"]
    /\ result.findings.passwords[2].match = AtomText["pw3z"]

\* the password atoms of the text, as <<line, place>>
PasswordAtoms ==
    UNION {{<<i, j>> : j \in HitsOn(i, "passwords")} : i \in 1..Len(args.lines)}

\* C17: for a text whose only password-keyword occurrence is 'password:
\* hunter2' on line k, passwords holds exactly one finding, with line = k and
\* a match that runs from the keyword through the value; the same holds for
\* the keywords passwd and pwd and for the separator '='.
C17_SinglePasswordFinding ==
    (pc = "scanned" /\ Cardinality(PasswordAtoms) = 1) =>
        LET at == CHOOSE x \in PasswordAtoms : TRUE
        IN  /\ Len(result.findings.passwords) = 1
            /\ result.findings.passwords[1].line = at[1]
            /\ result.findings.passwords[1].match = AtomText[args.lines[at[1]][at[2]]]

C17_Witness ==
    /\ pc = "scanned"
    /\ Len(args.lines) = 3
    /\ args.lines[3] = <<"pw1">>
    /\ PasswordAtoms = {<<3, 1>>}
    /\ result.findings.passwords[1].line = 3
    /\ result.findings.passwords[1].match =
           <<"p", "a", "s", "s", "w", "o", "r", "d", ":", " ",
             "h", "u", "n", "t", "e", "r", "2">>

\* the runs of alphanumeric characters among the atoms, by length
LongRuns == {"run32", "run33"}

\* C18: a run of at least 32 consecutive alphanumeric characters on a line is
\* flagged in api_keys even when no api-key, secret or token keyword precedes
\* it, and a run of 31 or fewer without such a keyword is not flagged.
C18_LongRunsFlagged ==
    pc = "scanned" =>
        \A i \in 1..Len(args.lines) :
            /\ \A j \in 1..Len(args.lines[i]) :
                   args.lines[i][j] \in LongRuns =>
                       \E k \in FoundOn(i, "api_keys") :
                           result.findings.api_keys[k].match = AtomText[args.lines[i][j]]
            /\ HitsOn(i, "api_keys") = {} => FoundOn(i, "api_keys") = {}

C18_Witness ==
    /\ pc = "scanned"
    /\ args.lines = <<<<"hi", "run32">>>>
    /\ Len(result.findings.api_keys) = 1
    /\ Len(result.findings.api_keys[1].match) = 32

\* C19: a line containing one of the five security-issue triggers, in
\* whatever case, yields a security_issues finding whose description is the
\* fixed string of that trigger, and a line containing none yields none.
C19_TriggerDescriptions ==
    pc = "scanned" =>
        \A i \in 1..Len(args.lines) :
            {result.findings.security_issues[k].issue : k \in FoundOn(i, "security_issues")}
            = {security_issue_patterns[AtomHit[args.lines[i][j]].pattern].description :
                   j \in HitsOn(i, "security_issues")}

C19_Witness ==
    /\ pc = "scanned"
    /\ args.lines = <<<<"EX", "ev">>>>
    /\ Len(result.findings.security_issues) = 2
    /\ result.findings.security_issues[1].issue = "Use of eval() function"
    /\ result.findings.security_issues[2].issue = "Use of exec() function"

\* line i of the scanned text, without its line break
TextLine(i) == LineText(args.lines[i])

\* the line from its first to its last character that is not whitespace
Trimmed(line) ==
    LET inked == {k \in 1..Len(line) : line[k] \notin {" ", "\t", "\n", "\r", "\f"}}
    IN  IF inked = {} THEN <<>>
        ELSE SubSeq(line, CHOOSE k \in inked : \A h \in inked : k <= h,
                          CHOOSE k \in inked : \A h \in inked : h <= k)

IsSubstring(part, whole) ==
    \E k \in 0..(Len(whole) - Len(part)) : SubSeq(whole, k + 1, k + Len(part)) = part

\* C26: every finding of analyze_security, in every category, has a line
\* number between 1 and metadata.line_count, and its context is the text of
\* that line without leading and trailing whitespace; in the three
\* categories that carry a match, the match is a substring of that line.
C26_FindingsPointAtTheirLine ==
    pc = "scanned" =>
        \A c \in 1..4 : \A k \in 1..Len(result.findings[Scanned4[c]]) :
            LET finding == result.findings[Scanned4[c]][k]
            IN  /\ finding.line \in 1..result.metadata.line_count
                /\ finding.line <= Len(args.lines)
                /\ finding.context = Trimmed(TextLine(finding.line))
                /\ Scanned4[c] /= "security_issues" =>
                       /\ finding.match /= <<>>
                       /\ IsSubstring(finding.match, TextLine(finding.line))

\* a password on an indented line: the context has lost the indentation
\* and the match is a part of the line
C26_Witness ==
    /\ pc = "scanned"
    /\ args.lines = <<<<"ind", "pw1">>>>
    /\ Len(result.findings.passwords) = 1
    /\ result.findings.passwords[1].line = 1
    /\ result.findings.passwords[1].match = AtomText["pw1"]
    /\ result.findings.passwords[1].context = <<"x", " ">> \o AtomText["pw1"]
    /\ result.findings.passwords[1].context /= TextLine(1)

----------------------------------------------------------------------------
(* Claims about repeated scans, checked under SpecRescan *)

\* what the caller of call i sees in the dict it was given
Held(i) == locals.objects[locals.calls[i].findings]

----------------------------------------------------------------------------
(* Claims about POST /generate-post, checked under SpecPost *)

Remote(status) == args.outcome.kind = "response" /\ args.outcome.status = status

\* C20: POST /generate-post maps remote outcomes to HTTP statuses: remote 401
\* gives 401, remote 429 gives 429, any other remote status >= 400 gives that
\* status with a 'Mistral API error' detail, a request timeout gives 504, and
\* any other network failure gives 500 with a 'Network error' detail.
C20_RemoteOutcomesMapped ==
    pc = "responded" =>
        /\ Remote(401) => result.status = 401
        /\ Remote(429) => result.status = 429
        /\ \A st \in PostStatuses \ {401, 429} :
               Remote(st) => result.status = st /\ result.detail = "Mistral API error"
        /\ args.outcome.kind = "Timeout" => result.status = 504
        /\ args.outcome.kind = "ConnectionError" =>
               result.status = 500 /\ result.detail = "Network error"

====
